---- MODULE Spec2Model ----
(***************************************************************************)
(* Model of the Govee temperature repository:                              *)
(*   - the standalone package  src/govee_temperature  (pydantic models,    *)
(*     httpx client, FastAPI facade), definitions prefixed Pkg_;           *)
(*   - the Home Assistant integration                                      *)
(*     src/custom_components/govee_temperature  (dataclass models, client, *)
(*     coordinator, entities), definitions prefixed HA_.                   *)
(* Python values are records tagged by k; a JSON object / dict is a        *)
(* function from its keys, so "key absent" is "key not in DOMAIN".         *)
(* A function result is [exc |-> <exception class or "none">, val |-> _]. *)
(***************************************************************************)
EXTENDS Integers, Sequences, FiniteSets, TLC

VARIABLES
    program,    \* which program runs: "service" (package and facade),
                \* "integration" (Home Assistant's coordinator and entities),
                \* "config_flow" (Home Assistant's config flow), "parser" (ParseSpec)
    raw,        \* ParseSpec: the raw device-list element handed to a parser
    parsed,     \* ParseSpec: which parser ran on raw, and its result
    vendor,     \* what the vendor endpoint does with the request of the last operation
    reply,      \* the last operation, its input and its outcome
    coordinator, \* the integration's DataUpdateCoordinator: data, last_update_success
    entities,   \* EntrySpec: the entities each platform set up so far has added
    config_entries \* the host's config entries of the integration, in the
                \* order of their creation: the data of each and the
                \* coordinator its last setup constructed

vars == <<program, raw, parsed, vendor, reply, coordinator, entities, config_entries>>

-----------------------------------------------------------------------------
(* Python values *)

None == [k |-> "none"]
BoolV(b) == [k |-> "bool", b |-> b]
IntV(n) == [k |-> "int", v |-> n]
StrV(s) == [k |-> "str", s |-> s]
\* a float with two decimals: w + f/100, 0 <= f < 100
FloatV(w, f) == [k |-> "float", w |-> w, f |-> f]
\* float("inf"): what json.loads gives for Infinity or for 1e999
Infinity == [k |-> "inf"]
\* a JSON array / list of the given items
ListOf(items) == [k |-> "list", items |-> items]
List == ListOf(<<>>)
\* a JSON object / dict d is [k |-> "dict", d |-> function from keys]
Dict(d) == [k |-> "dict", d |-> d]

Ok(v) == [exc |-> "none", val |-> v]
Raise(e) == [exc |-> e, val |-> None]

\* "x = <r>; <F(x)>": r's exception propagates, else F continues with its value
Bind(r, F(_)) == IF r.exc # "none" THEN r ELSE F(r.val)

\* two statements in order, then F on both values
Bind2(a, b, F(_, _)) ==
    IF a.exc # "none" THEN a ELSE IF b.exc # "none" THEN b ELSE F(a.val, b.val)

\* bool(x)
Truthy(x) ==
    CASE x.k = "none" -> FALSE
      [] x.k = "bool" -> x.b
      [] x.k = "int" -> x.v # 0
      [] x.k = "str" -> IF "t" \in DOMAIN x THEN x.t.form # "empty" ELSE x.s # ""
      [] x.k = "float" -> ~(x.w = 0 /\ x.f = 0)
      [] x.k = "list" -> x.items # <<>>
      [] x.k = "dict" -> DOMAIN x.d # {}
      [] OTHER -> TRUE

\* d.get(key) on a dict
Get(d, key) == IF key \in DOMAIN d THEN d[key] ELSE None

\* d.get(key, default)
GetOr(d, key, default) == IF key \in DOMAIN d THEN d[key] ELSE default

\* the decimal strings among the strings the inputs use
DecimalStrings == {"2160"}
DecimalValue(s) == CASE s = "2160" -> 2160 [] OTHER -> 0

\* int(v)
PyInt(x) ==
    CASE x.k = "int" -> Ok(x.v)
      [] x.k = "bool" -> Ok(IF x.b THEN 1 ELSE 0)
      [] x.k = "str" -> IF "s" \in DOMAIN x /\ x.s \in DecimalStrings
                        THEN Ok(DecimalValue(x.s))
                        ELSE Raise("ValueError")
      [] x.k = "float" -> Ok(IF x.w < 0 /\ x.f > 0 THEN x.w + 1 ELSE x.w)
      [] x.k = "inf" -> Raise("OverflowError")
      [] OTHER -> Raise("TypeError")

-----------------------------------------------------------------------------
(* Exception classes and "except C" matching *)

Parent(e) ==
    CASE e = "ValidationError" -> "ValueError"
      [] e = "JSONDecodeError" -> "ValueError"
      [] e = "ValueError" -> "Exception"
      [] e = "KeyError" -> "Exception"
      [] e = "TypeError" -> "Exception"
      [] e = "OverflowError" -> "Exception"
      [] e = "AttributeError" -> "Exception"
      [] e = "GoveeClientError" -> "Exception"
      [] e = "GoveeAuthenticationError" -> "GoveeClientError"
      [] e = "GoveeConnectionError" -> "GoveeClientError"
      [] e = "HTTPStatusError" -> "Exception"
      [] e = "RequestError" -> "Exception"
      [] e = "ConnectError" -> "RequestError"
      [] e = "ReadTimeout" -> "RequestError"
      [] e = "ConfigEntryAuthFailed" -> "Exception"
      [] e = "UpdateFailed" -> "Exception"
      [] e = "HTTPException" -> "Exception"
      [] e = "CannotConnect" -> "Exception"
      [] e = "InvalidAuth" -> "Exception"
      [] e = "AbortFlow" -> "Exception"
      [] OTHER -> "BaseException"

RECURSIVE IsInstance(_, _)
IsInstance(e, c) ==
    IF e = c THEN TRUE
    ELSE IF e \in {"none", "BaseException"} THEN FALSE
    ELSE IsInstance(Parent(e), c)

\* "except (A, B)": the raised class is an instance of one of cs
Caught(e, cs) == e # "none" /\ \E c \in cs : IsInstance(e, c)

\* "try: return <r>  except cs: return None"
OrNone(r, cs) == IF Caught(r.exc, cs) THEN Ok(None) ELSE r

-----------------------------------------------------------------------------
(* json.loads on the text of a string value.  A text is "" , text that is  *)
(* not JSON, or the encoding of a JSON value.  A plain identifier string   *)
(* (StrV) is not JSON either.                                              *)

EmptyText == [form |-> "empty"]
MalformedText == [form |-> "malformed"]
JsonText(value) == [form |-> "json", value |-> value]
\* a str value holding such a text
Text(t) == [k |-> "str", t |-> t]

\* json.dumps(value): the text encoding the value, keys and members as they are
json_dumps(value) == Text(JsonText(value))

json_loads(x) ==
    IF x.k # "str" THEN Raise("TypeError")
    ELSE IF "t" \notin DOMAIN x THEN Raise("JSONDecodeError")
    ELSE IF x.t.form = "json" THEN Ok(x.t.value)
    ELSE Raise("JSONDecodeError")

-----------------------------------------------------------------------------
(* pydantic (v2, lax mode) validation of one field value against the       *)
(* annotations the package's models use: "int?" is int | None, "bool?" is  *)
(* bool | None, "str?" is str | None, "int" and "str" are required.        *)

TrueStrings == {"1", "on", "t", "true", "y", "yes"}
FalseStrings == {"0", "off", "f", "false", "n", "no"}

IsPlainStr(x) == x.k = "str" /\ "s" \in DOMAIN x

AcceptsInt(x) ==
    \/ x.k \in {"int", "bool"}
    \/ x.k = "float" /\ x.f = 0
    \/ IsPlainStr(x) /\ x.s \in DecimalStrings

AcceptsBool(x) ==
    \/ x.k = "bool"
    \/ x.k = "int" /\ x.v \in {0, 1}
    \/ IsPlainStr(x) /\ x.s \in TrueStrings \cup FalseStrings

Accepts(t, x) ==
    CASE t = "int" -> AcceptsInt(x)
      [] t = "int?" -> x.k = "none" \/ AcceptsInt(x)
      [] t = "bool?" -> x.k = "none" \/ AcceptsBool(x)
      [] t = "str" -> x.k = "str"
      [] t = "str?" -> x.k \in {"none", "str"}
      [] OTHER -> FALSE

Coerce(t, x) ==
    CASE x.k = "none" -> None
      [] t \in {"int", "int?"} -> IntV(PyInt(x).val)
      [] t = "bool?" ->
            IF x.k = "bool" THEN x
            ELSE IF x.k = "int" THEN BoolV(x.v = 1)
            ELSE BoolV(x.s \in TrueStrings)
      [] OTHER -> x

\* schema: a set of [f |-> field name, a |-> alias (input key), t |-> annotation]
Column(schema, f) == CHOOSE c \in schema : c.f = f

Required(t) == t \in {"int", "str"}

\* the key a field is read under when populate_by_name were set: the alias if
\* the data has it, else the field's own name
KeyByName(c, data) == IF c.a \in DOMAIN data.d THEN c.a ELSE c.f

\* model_validate of a model configured with populate_by_name=True
model_validate_by_name(schema, data) ==
    IF data.k # "dict" THEN Raise("ValidationError")
    ELSE IF \E c \in schema :
               \/ KeyByName(c, data) \in DOMAIN data.d
                     /\ ~Accepts(c.t, data.d[KeyByName(c, data)])
               \/ KeyByName(c, data) \notin DOMAIN data.d /\ Required(c.t)
         THEN Raise("ValidationError")
    ELSE Ok(Dict([f \in {c.f : c \in schema} |->
                IF KeyByName(Column(schema, f), data) \in DOMAIN data.d
                THEN Coerce(Column(schema, f).t,
                            data.d[KeyByName(Column(schema, f), data)])
                ELSE None]))

\* BaseModel.model_validate(data) for a model of scalar fields; unknown keys
\* are ignored, a key is read under its alias only
model_validate(schema, data) ==
    IF data.k # "dict" THEN Raise("ValidationError")
    ELSE IF \E c \in schema :
               \/ c.a \in DOMAIN data.d /\ ~Accepts(c.t, data.d[c.a])
               \/ c.a \notin DOMAIN data.d /\ Required(c.t)
         THEN Raise("ValidationError")
    ELSE Ok(Dict([f \in {c.f : c \in schema} |->
                IF Column(schema, f).a \in DOMAIN data.d
                THEN Coerce(Column(schema, f).t, data.d[Column(schema, f).a])
                ELSE None]))

-----------------------------------------------------------------------------
(* src/govee_temperature/models.py *)

Pkg_DeviceSettings ==
    { [f |-> "device_type", a |-> "deviceType", t |-> "int?"],
      [f |-> "push_state", a |-> "pushState", t |-> "bool?"],
      [f |-> "tem_min", a |-> "temMin", t |-> "int?"],
      [f |-> "tem_max", a |-> "temMax", t |-> "int?"],
      [f |-> "tem_warning", a |-> "temWarning", t |-> "bool?"],
      [f |-> "tem_cali", a |-> "temCali", t |-> "int?"],
      [f |-> "hum_min", a |-> "humMin", t |-> "int?"],
      [f |-> "hum_max", a |-> "humMax", t |-> "int?"],
      [f |-> "hum_warning", a |-> "humWarning", t |-> "bool?"],
      [f |-> "hum_cali", a |-> "humCali", t |-> "int?"],
      [f |-> "battery", a |-> "battery", t |-> "int?"],
      [f |-> "wifi_level", a |-> "wifiLevel", t |-> "int?"],
      [f |-> "upload_rate", a |-> "uploadRate", t |-> "int?"],
      [f |-> "power_save_mode_state", a |-> "powerSaveModeState", t |-> "bool?"],
      [f |-> "fah_open", a |-> "fahOpen", t |-> "bool?"],
      [f |-> "net_waring", a |-> "netWaring", t |-> "bool?"],
      [f |-> "device_name", a |-> "deviceName", t |-> "str?"],
      [f |-> "sku", a |-> "sku", t |-> "str?"],
      [f |-> "device", a |-> "device", t |-> "str?"],
      [f |-> "version_hard", a |-> "versionHard", t |-> "str?"],
      [f |-> "version_soft", a |-> "versionSoft", t |-> "str?"],
      [f |-> "gateway_id", a |-> "gatewayId", t |-> "int?"] }

Pkg_LastDeviceData ==
    { [f |-> "online", a |-> "online", t |-> "bool?"],
      [f |-> "tem", a |-> "tem", t |-> "int?"],
      [f |-> "hum", a |-> "hum", t |-> "int?"],
      [f |-> "last_time", a |-> "lastTime", t |-> "int?"],
      [f |-> "avg_day_tem", a |-> "avgDayTem", t |-> "int?"],
      [f |-> "avg_day_hum", a |-> "avgDayHum", t |-> "int?"] }

\* the keys the "before" validator of LastDeviceData runs on
SensorValueKeys == {"tem", "hum", "avgDayTem", "avgDayHum"}

\* LastDeviceData.validate_sensor_values
Pkg_validate_sensor_values(v) ==
    IF v.k = "none" THEN Ok(None)
    ELSE OrNone(Bind(PyInt(v), LAMBDA n : Ok(IntV(n))), {"ValueError", "TypeError"})

\* the keys of d whose "before" validator raises
Pkg_failing_sensor_keys(d) ==
    { key \in DOMAIN d \cap SensorValueKeys :
        Pkg_validate_sensor_values(d[key]).exc # "none" }

\* LastDeviceData.model_validate: the "before" validators, then the fields; an
\* exception of a validator that is no ValueError leaves model_validate as it is
Pkg_LastDeviceData_model_validate(data) ==
    IF data.k # "dict" THEN Raise("ValidationError")
    ELSE IF Pkg_failing_sensor_keys(data.d) # {}
    THEN Pkg_validate_sensor_values(data.d[CHOOSE key \in Pkg_failing_sensor_keys(data.d) : TRUE])
    ELSE model_validate(Pkg_LastDeviceData,
            Dict([key \in DOMAIN data.d |->
                    IF key \in SensorValueKeys
                    THEN Pkg_validate_sensor_values(data.d[key]).val
                    ELSE data.d[key]]))

Pkg_DeviceExt ==
    { [f |-> "device_settings", a |-> "deviceSettings", t |-> "str?"],
      [f |-> "last_device_data", a |-> "lastDeviceData", t |-> "str?"],
      [f |-> "device_splice", a |-> "deviceSplice", t |-> "str?"],
      [f |-> "ext_resources", a |-> "extResources", t |-> "str?"],
      [f |-> "shared_settings", a |-> "sharedSettings", t |-> "str?"] }

\* DeviceSettings.model_validate
Pkg_DeviceSettings_model_validate(data) == model_validate(Pkg_DeviceSettings, data)

\* get_parsed_device_settings without its except clause
Pkg_get_parsed_device_settings_uncaught(ext) ==
    IF ~Truthy(ext.device_settings) THEN Ok(None)
    ELSE Bind(json_loads(ext.device_settings), Pkg_DeviceSettings_model_validate)

\* DeviceExt.get_parsed_device_settings: a DeviceSettings, or None
Pkg_get_parsed_device_settings(ext) ==
    IF ~Truthy(ext.device_settings) THEN Ok(None)
    ELSE OrNone(Bind(json_loads(ext.device_settings), Pkg_DeviceSettings_model_validate),
                {"JSONDecodeError", "ValueError"})

\* DeviceExt.get_parsed_last_device_data: a LastDeviceData, or None
Pkg_get_parsed_last_device_data(ext) ==
    IF ~Truthy(ext.last_device_data) THEN Ok(None)
    ELSE OrNone(Bind(json_loads(ext.last_device_data), Pkg_LastDeviceData_model_validate),
                {"JSONDecodeError", "ValueError"})

\* _convert_temperature testing truthiness instead of "is None"
Pkg_convert_temperature_falsy(temp_hundredths) ==
    IF ~Truthy(temp_hundredths) THEN None
    ELSE FloatV(temp_hundredths.v \div 100, temp_hundredths.v % 100)

\* GoveeDevice._convert_temperature: temp_hundredths / 100.0
Pkg_convert_temperature(temp_hundredths) ==
    IF temp_hundredths.k = "none" THEN None
    ELSE FloatV(temp_hundredths.v \div 100, temp_hundredths.v % 100)

\* GoveeDevice._convert_humidity: hum_hundredths / 100.0
Pkg_convert_humidity(hum_hundredths) ==
    IF hum_hundredths.k = "none" THEN None
    ELSE FloatV(hum_hundredths.v \div 100, hum_hundredths.v % 100)

\* "m.field if m else None" for a parsed sub-document m (a model, or None)
Attr(m, field) == IF m.k = "none" THEN None ELSE m.d[field]

\* the DeviceData built by GoveeDevice.set_computed_fields
Pkg_DeviceData(device_settings, last_device_data) ==
    [ temperature |-> Pkg_convert_temperature(Attr(last_device_data, "tem")),
      humidity |-> Pkg_convert_humidity(Attr(last_device_data, "hum")),
      battery |-> Attr(device_settings, "battery"),
      online |-> Attr(last_device_data, "online"),
      wifi_level |-> Attr(device_settings, "wifi_level"),
      temperature_warning |-> Attr(device_settings, "tem_warning"),
      humidity_warning |-> Attr(device_settings, "hum_warning"),
      upload_rate |-> Attr(device_settings, "upload_rate"),
      power_save_mode |-> Attr(device_settings, "power_save_mode_state"),
      last_seen |-> Attr(last_device_data, "last_time"),
      avg_day_temperature |-> Pkg_convert_temperature(Attr(last_device_data, "avg_day_tem")),
      avg_day_humidity |-> Pkg_convert_humidity(Attr(last_device_data, "avg_day_hum")),
      raw_data |-> [ device_settings |-> device_settings,
                     last_device_data |-> last_device_data ] ]

\* the GoveeDevice with validated fields m, validated DeviceExt ext and the
\* two parsed sub-documents
Pkg_device(m, ext, device_settings, last_device_data) ==
    [ k |-> "device",
      device_id |-> m.d.device_id, group_id |-> m.d.group_id, sku |-> m.d.sku,
      device |-> m.d.device, version_hard |-> m.d.version_hard,
      version_soft |-> m.d.version_soft, device_name |-> m.d.device_name,
      device_ext |-> ext.d,
      name |-> m.d.device_name, mac |-> m.d.device, model |-> m.d.sku,
      data |-> Pkg_DeviceData(device_settings, last_device_data) ]

\* GoveeDevice.set_computed_fields (model_validator, mode "after") on the
\* validated fields m and the validated DeviceExt ext
Pkg_set_computed_fields(m, ext) ==
    Bind2(Pkg_get_parsed_device_settings(ext.d), Pkg_get_parsed_last_device_data(ext.d),
          LAMBDA device_settings, last_device_data :
              Ok(Pkg_device(m, ext, device_settings, last_device_data)))

\* the scalar fields of GoveeDevice; device_ext (alias deviceExt) is required too
Pkg_GoveeDevice ==
    { [f |-> "device_id", a |-> "deviceId", t |-> "int"],
      [f |-> "group_id", a |-> "groupId", t |-> "int"],
      [f |-> "sku", a |-> "sku", t |-> "str"],
      [f |-> "device", a |-> "device", t |-> "str"],
      [f |-> "version_hard", a |-> "versionHard", t |-> "str"],
      [f |-> "version_soft", a |-> "versionSoft", t |-> "str"],
      [f |-> "device_name", a |-> "deviceName", t |-> "str"] }

\* device_ext validated as an optional field whose default is an empty DeviceExt
Pkg_validate_device_ext_or_empty(device) ==
    IF device.k # "dict" THEN Raise("ValidationError")
    ELSE model_validate(Pkg_DeviceExt, GetOr(device.d, "deviceExt", Dict(<<>>)))

\* the validation of the required field device_ext (alias deviceExt)
Pkg_validate_device_ext(device) ==
    IF device.k = "dict" /\ "deviceExt" \in DOMAIN device.d
    THEN model_validate(Pkg_DeviceExt, device.d["deviceExt"])
    ELSE Raise("ValidationError")

\* GoveeDevice.model_validate
Pkg_GoveeDevice_model_validate(device) ==
    Bind2(model_validate(Pkg_GoveeDevice, device), Pkg_validate_device_ext(device),
          Pkg_set_computed_fields)

\* GoveeDevice.from_api_response: the device, or None
Pkg_from_api_response(device) ==
    OrNone(Pkg_GoveeDevice_model_validate(device), {"ValueError"})

-----------------------------------------------------------------------------
(* src/custom_components/govee_temperature/models.py *)

\* DeviceSettings.from_dict: data.get(<key>) per field, no validation
HA_DeviceSettings_from_dict(data) ==
    IF data.k # "dict" THEN Raise("AttributeError")
    ELSE Ok(Dict([f \in {c.f : c \in Pkg_DeviceSettings} |->
                    Get(data.d, Column(Pkg_DeviceSettings, f).a)]))

\* LastDeviceData._validate_sensor_value
HA_validate_sensor_value(v) ==
    IF v.k = "none" THEN Ok(None)
    ELSE OrNone(Bind(PyInt(v), LAMBDA n : Ok(IntV(n))), {"ValueError", "TypeError"})

\* the keys of d whose _validate_sensor_value raises
HA_failing_sensor_keys(d) ==
    { key \in SensorValueKeys : HA_validate_sensor_value(Get(d, key)).exc # "none" }

\* LastDeviceData.from_dict
HA_LastDeviceData_from_dict(data) ==
    IF data.k # "dict" THEN Raise("AttributeError")
    ELSE IF HA_failing_sensor_keys(data.d) # {}
    THEN HA_validate_sensor_value(
            Get(data.d, CHOOSE key \in HA_failing_sensor_keys(data.d) : TRUE))
    ELSE Ok(Dict([ online |-> Get(data.d, "online"),
                   tem |-> HA_validate_sensor_value(Get(data.d, "tem")).val,
                   hum |-> HA_validate_sensor_value(Get(data.d, "hum")).val,
                   last_time |-> Get(data.d, "lastTime"),
                   avg_day_tem |-> HA_validate_sensor_value(Get(data.d, "avgDayTem")).val,
                   avg_day_hum |-> HA_validate_sensor_value(Get(data.d, "avgDayHum")).val ]))

\* DeviceExt.from_dict
HA_DeviceExt_from_dict(data) ==
    IF data.k # "dict" THEN Raise("AttributeError")
    ELSE Ok(Dict([ device_settings |-> Get(data.d, "deviceSettings"),
                   last_device_data |-> Get(data.d, "lastDeviceData"),
                   device_splice |-> Get(data.d, "deviceSplice"),
                   ext_resources |-> Get(data.d, "extResources"),
                   shared_settings |-> Get(data.d, "sharedSettings") ]))

\* DeviceExt.get_parsed_device_settings
HA_get_parsed_device_settings(ext) ==
    IF ~Truthy(ext.device_settings) THEN Ok(None)
    ELSE OrNone(Bind(json_loads(ext.device_settings), HA_DeviceSettings_from_dict),
                {"JSONDecodeError", "ValueError"})

\* DeviceExt.get_parsed_last_device_data
HA_get_parsed_last_device_data(ext) ==
    IF ~Truthy(ext.last_device_data) THEN Ok(None)
    ELSE OrNone(Bind(json_loads(ext.last_device_data), HA_LastDeviceData_from_dict),
                {"JSONDecodeError", "ValueError"})

\* GoveeDevice._convert_temperature
HA_convert_temperature(temp_hundredths) ==
    IF temp_hundredths.k = "none" THEN None
    ELSE FloatV(temp_hundredths.v \div 100, temp_hundredths.v % 100)

\* GoveeDevice._convert_humidity
HA_convert_humidity(hum_hundredths) ==
    IF hum_hundredths.k = "none" THEN None
    ELSE FloatV(hum_hundredths.v \div 100, hum_hundredths.v % 100)

\* the DeviceData built by GoveeDevice.__post_init__
HA_DeviceData(device_settings, last_device_data) ==
    [ temperature |-> HA_convert_temperature(Attr(last_device_data, "tem")),
      humidity |-> HA_convert_humidity(Attr(last_device_data, "hum")),
      battery |-> Attr(device_settings, "battery"),
      online |-> Attr(last_device_data, "online"),
      wifi_level |-> Attr(device_settings, "wifi_level"),
      temperature_warning |-> Attr(device_settings, "tem_warning"),
      humidity_warning |-> Attr(device_settings, "hum_warning"),
      upload_rate |-> Attr(device_settings, "upload_rate"),
      power_save_mode |-> Attr(device_settings, "power_save_mode_state"),
      last_seen |-> Attr(last_device_data, "last_time"),
      avg_day_temperature |-> HA_convert_temperature(Attr(last_device_data, "avg_day_tem")),
      avg_day_humidity |-> HA_convert_humidity(Attr(last_device_data, "avg_day_hum")),
      raw_data |-> [ device_settings |-> device_settings,
                     last_device_data |-> last_device_data ] ]

\* the GoveeDevice built from the members d, the DeviceExt ext and the two
\* parsed sub-documents
HA_device(d, ext, device_settings, last_device_data) ==
    [ k |-> "device",
      device_id |-> d["deviceId"], group_id |-> d["groupId"], sku |-> d["sku"],
      device |-> d["device"], version_hard |-> d["versionHard"],
      version_soft |-> d["versionSoft"], device_name |-> d["deviceName"],
      device_ext |-> ext.d,
      name |-> d["deviceName"], mac |-> d["device"], model |-> d["sku"],
      data |-> HA_DeviceData(device_settings, last_device_data) ]

\* GoveeDevice.__post_init__ on the constructor's arguments
HA_post_init(d, ext) ==
    Bind2(HA_get_parsed_device_settings(ext.d), HA_get_parsed_last_device_data(ext.d),
          LAMBDA device_settings, last_device_data :
              Ok(HA_device(d, ext, device_settings, last_device_data)))

\* the keys GoveeDevice.from_dict subscripts, in its order
HA_RequiredKeys ==
    <<"deviceId", "groupId", "sku", "device", "versionHard", "versionSoft",
      "deviceName", "deviceExt">>

\* GoveeDevice.from_dict
HA_GoveeDevice_from_dict(data) ==
    IF data.k # "dict" THEN Raise("TypeError")
    ELSE IF \E i \in DOMAIN HA_RequiredKeys : HA_RequiredKeys[i] \notin DOMAIN data.d
    THEN Raise("KeyError")
    ELSE Bind(HA_DeviceExt_from_dict(data.d["deviceExt"]),
              LAMBDA ext : HA_post_init(data.d, ext))

\* from_api_response catching ValueError only
HA_from_api_response_value_error(device) ==
    OrNone(HA_GoveeDevice_from_dict(device), {"ValueError"})

\* GoveeDevice.from_api_response: the device, or None
HA_from_api_response(device) ==
    OrNone(HA_GoveeDevice_from_dict(device), {"ValueError", "KeyError"})

-----------------------------------------------------------------------------
(* The vendor endpoint, as the one GET of a request sees it: an HTTP        *)
(* response [kind |-> "response", status, body], or a transport failure    *)
(* [kind |-> "failure", exc] with exc a subclass of httpx.RequestError.    *)
(* body is a JSON value, or NotJson when the body is not JSON.             *)

NotJson == [k |-> "notjson"]
Response(status, body) == [kind |-> "response", status |-> status, body |-> body]
Failure(exc) == [kind |-> "failure", exc |-> exc]

\* Response.raise_for_status
raise_for_status(v) ==
    IF v.status \in 200..299 THEN Ok(None) ELSE Raise("HTTPStatusError")

\* Response.json
response_json(v) ==
    IF v.body = NotJson THEN Raise("JSONDecodeError") ELSE Ok(v.body)

\* x[key] in place of x.get(key, default)
DictSubscript(x, key, default) ==
    IF x.k # "dict" THEN Raise("TypeError")
    ELSE IF key \in DOMAIN x.d THEN Ok(x.d[key]) ELSE Raise("KeyError")

\* x.get(key, default) on any value: AttributeError unless x is a dict
DictGet(x, key, default) ==
    IF x.k # "dict" THEN Raise("AttributeError") ELSE Ok(GetOr(x.d, key, default))

\* the strings of S as a sequence of str values
RECURSIVE Keys(_)
Keys(S) ==
    IF S = {} THEN <<>>
    ELSE LET x == CHOOSE x \in S : TRUE IN <<StrV(x)>> \o Keys(S \ {x})

\* the items "for ... in x" visits: the elements of a list, the keys of a dict
Iterate(x) ==
    CASE x.k = "list" -> Ok(x.items)
      [] x.k = "dict" -> Ok(Keys(DOMAIN x.d))
      [] OTHER -> Raise("TypeError")

\* "if device: devices.append(device)"
append_if(devices, device) ==
    IF device.k = "device" THEN Append(devices, device) ELSE devices

\* the loop of get_devices over the device list, with `devices` the list built
\* so far: from_api_response on each element, the truthy results appended
RECURSIVE collect_devices(_, _)
collect_devices(items, devices) ==
    IF items = <<>> THEN Ok(devices)
    ELSE Bind(Pkg_from_api_response(Head(items)),
              LAMBDA device : collect_devices(Tail(items), append_if(devices, device)))

\* the loop over a value that may not be iterable
loop_over(list) == Bind(Iterate(list), LAMBDA items : collect_devices(items, <<>>))

\* data.get("data", {}).get("devices", []) and the loop over it
devices_of(data) ==
    Bind(DictGet(data, "data", Dict(<<>>)),
         LAMBDA inner : Bind(DictGet(inner, "devices", List), loop_over))

\* the result of a call that sent `gets` requests
Sent(r, gets) == [exc |-> r.exc, val |-> r.val, gets |-> gets]

-----------------------------------------------------------------------------
(* src/govee_temperature/client.py *)

\* response.raise_for_status(); data = response.json(); the loop
status_json_devices(v) ==
    Bind(raise_for_status(v), LAMBDA none : Bind(response_json(v), devices_of))

\* the try block of GoveeClient.get_devices
Pkg_get_devices_try(v) ==
    IF v.kind = "failure" THEN Raise(v.exc)
    ELSE IF v.status = 401 THEN Raise("GoveeAuthenticationError")
    ELSE status_json_devices(v)

\* the except clauses of GoveeClient.get_devices, in order, on the outcome r of
\* its try block
Pkg_get_devices_except(v, r) ==
    IF r.exc = "none" THEN r
    ELSE IF IsInstance(r.exc, "HTTPStatusError")
    THEN IF v.status = 401 THEN Raise("GoveeAuthenticationError")
         ELSE Raise("GoveeClientError")
    ELSE IF IsInstance(r.exc, "RequestError") THEN Raise("GoveeConnectionError")
    ELSE IF IsInstance(r.exc, "Exception") THEN Raise("GoveeClientError")
    ELSE r

\* get_devices sending the GET a second time when the first attempt fails
Pkg_get_devices_retrying(v) ==
    Sent(Pkg_get_devices_except(v, Pkg_get_devices_try(v)),
         IF Pkg_get_devices_try(v).exc = "none" THEN 1 ELSE 2)

\* GoveeClient.get_devices: one GET
Pkg_get_devices(v) == Sent(Pkg_get_devices_except(v, Pkg_get_devices_try(v)), 1)

\* the last device of that name instead of the first
RECURSIVE last_named(_, _)
last_named(devices, device_name) ==
    IF devices = <<>> THEN None
    ELSE IF last_named(Tail(devices), device_name) # None
    THEN last_named(Tail(devices), device_name)
    ELSE IF Head(devices).name = StrV(device_name) THEN Head(devices)
    ELSE None

\* next(device for device in devices if device.name == device_name, None)
RECURSIVE first_named(_, _)
first_named(devices, device_name) ==
    IF devices = <<>> THEN None
    ELSE IF Head(devices).name = StrV(device_name) THEN Head(devices)
    ELSE first_named(Tail(devices), device_name)

\* GoveeClient.get_device_by_name, with `devices` the outcome of its call of
\* get_devices
Pkg_get_device_by_name(devices, device_name) ==
    IF devices.exc # "none" THEN devices
    ELSE Sent(Ok(first_named(devices.val, device_name)), devices.gets)

\* GoveeClient.get_temperature, with `device` the outcome of its call of
\* get_device_by_name
Pkg_get_temperature(device) ==
    IF device.exc # "none" THEN device
    ELSE Sent(Ok(IF device.val # None THEN device.val.data.temperature ELSE None),
              device.gets)

-----------------------------------------------------------------------------
(* src/govee_temperature/main.py *)

\* an environment variable that is not set
Unset == None

\* _get_client: the client, or HTTPException(500) when a variable is missing
\* or empty
Main_get_client(env) ==
    IF ~Truthy(env.GOVEE_AUTH_TOKEN) \/ ~Truthy(env.GOVEE_CLIENT_ID)
    THEN [exc |-> "HTTPException", status |-> 500]
    ELSE [exc |-> "none", status |-> 0]

\* the record both endpoints return for a device
Main_device_json(device) ==
    [ name |-> device.name, mac |-> device.mac, model |-> device.model,
      temperature |-> device.data.temperature, humidity |-> device.data.humidity,
      battery |-> device.data.battery ]

RECURSIVE Main_devices_json(_)
Main_devices_json(devices) ==
    IF devices = <<>> THEN <<>>
    ELSE <<Main_device_json(Head(devices))>> \o Main_devices_json(Tail(devices))

\* the HTTP answer of an endpoint: status, JSON body, upstream requests sent
Answer(status, body, gets) == [status |-> status, body |-> body, gets |-> gets]

\* the except clauses both endpoints share, in order: the status for a raised
\* Govee error
Main_error_status(exc) ==
    IF IsInstance(exc, "GoveeAuthenticationError") THEN 401
    ELSE IF IsInstance(exc, "GoveeConnectionError") THEN 503
    ELSE 500

\* the rest of GET /devices on the outcomes of _get_client and get_devices
Main_devices_answer(client, devices) ==
    IF client.exc # "none" THEN Answer(client.status, None, 0)
    ELSE IF devices.exc # "none"
    THEN Answer(Main_error_status(devices.exc), None, devices.gets)
    ELSE Answer(200, [devices |-> Main_devices_json(devices.val)], devices.gets)

\* GET /devices, with `devices` the outcome get_devices has when it is called
Main_get_devices(env, devices) == Main_devices_answer(Main_get_client(env), devices)

\* the rest of GET /device/{device_name} on the outcomes of _get_client and
\* get_device_by_name
Main_device_answer(client, device) ==
    IF client.exc # "none" THEN Answer(client.status, None, 0)
    ELSE IF device.exc # "none"
    THEN Answer(Main_error_status(device.exc), None, device.gets)
    ELSE IF device.val = None THEN Answer(404, None, device.gets)
    ELSE Answer(200, Main_device_json(device.val), device.gets)

\* GET /device/{device_name}, with `devices` the outcome get_devices has when it
\* is called
Main_get_device(env, devices, device_name) ==
    Main_device_answer(Main_get_client(env), Pkg_get_device_by_name(devices, device_name))

\* GET /health
Main_health_check == Answer(200, [status |-> "healthy"], 0)

-----------------------------------------------------------------------------
(* src/custom_components/govee_temperature/client.py                       *)
(* The module imports GoveeDevice from govee_temperature.models, the        *)
(* package's models, so its loop runs the package's from_api_response.     *)

\* the try block of GoveeClient.get_devices
HA_get_devices_try(v) ==
    IF v.kind = "failure" THEN Raise(v.exc)
    ELSE IF v.status = 401 THEN Raise("ConfigEntryAuthFailed")
    ELSE status_json_devices(v)

\* the except clauses of GoveeClient.get_devices, in order, on the outcome r of
\* its try block
HA_get_devices_except(v, r) ==
    IF r.exc = "none" THEN r
    ELSE IF IsInstance(r.exc, "HTTPStatusError")
    THEN IF v.status = 401 THEN Raise("ConfigEntryAuthFailed")
         ELSE Raise("UpdateFailed")
    ELSE IF IsInstance(r.exc, "RequestError") THEN Raise("UpdateFailed")
    ELSE IF IsInstance(r.exc, "Exception") THEN Raise("UpdateFailed")
    ELSE r

\* GoveeClient.get_devices: one GET
HA_get_devices(v) == Sent(HA_get_devices_except(v, HA_get_devices_try(v)), 1)

-----------------------------------------------------------------------------
(* src/custom_components/govee_temperature/coordinator.py *)

\* a record without the device's model and raw_data
HA_processed_device_short(device) ==
    [ name |-> device.name, mac |-> device.mac,
      temperature |-> device.data.temperature, humidity |-> device.data.humidity,
      battery |-> device.data.battery, online |-> device.data.online,
      wifi_level |-> device.data.wifi_level,
      temperature_warning |-> device.data.temperature_warning,
      humidity_warning |-> device.data.humidity_warning,
      upload_rate |-> device.data.upload_rate,
      power_save_mode |-> device.data.power_save_mode,
      last_seen |-> device.data.last_seen,
      avg_day_temperature |-> device.data.avg_day_temperature,
      avg_day_humidity |-> device.data.avg_day_humidity ]

\* the record _async_update_data stores for a device
HA_processed_device(device) ==
    [ name |-> device.name, mac |-> device.mac,
      temperature |-> device.data.temperature, humidity |-> device.data.humidity,
      battery |-> device.data.battery, online |-> device.data.online,
      wifi_level |-> device.data.wifi_level,
      temperature_warning |-> device.data.temperature_warning,
      humidity_warning |-> device.data.humidity_warning,
      upload_rate |-> device.data.upload_rate,
      power_save_mode |-> device.data.power_save_mode,
      last_seen |-> device.data.last_seen,
      avg_day_temperature |-> device.data.avg_day_temperature,
      avg_day_humidity |-> device.data.avg_day_humidity,
      model |-> device.model, raw_data |-> device.data.raw_data ]

\* d[key] = value on a dict
Put(d, key, value) ==
    [x \in DOMAIN d \cup {key} |-> IF x = key THEN value ELSE d[x]]

\* the loop of _async_update_data over devices, with `processed_devices` the
\* dict built so far: processed_devices[device.mac] = {...}
RECURSIVE HA_processed_devices(_, _)
HA_processed_devices(devices, processed_devices) ==
    IF devices = <<>> THEN processed_devices
    ELSE HA_processed_devices(Tail(devices),
            Put(processed_devices, Head(devices).mac.s, HA_processed_device(Head(devices))))

\* the try block of _async_update_data on the outcome of get_devices
HA_async_update_data_try(devices) ==
    Bind(devices, LAMBDA list : Ok(Dict(HA_processed_devices(list, <<>>))))

\* the except clauses of _async_update_data, in order, on the outcome r of its
\* try block
HA_async_update_data_except(r) ==
    IF r.exc = "none" THEN r
    ELSE IF IsInstance(r.exc, "GoveeAuthenticationError")
    THEN Raise("ConfigEntryAuthFailed")
    ELSE IF IsInstance(r.exc, "GoveeConnectionError") THEN Raise("UpdateFailed")
    ELSE IF IsInstance(r.exc, "Exception") THEN Raise("UpdateFailed")
    ELSE r

\* the outcome of get_devices without its count of requests
Outcome(r) == [exc |-> r.exc, val |-> r.val]

\* GoveeTemperatureCoordinator._async_update_data, with `devices` the outcome
\* of its call of get_devices
HA_async_update_data(devices) ==
    Sent(HA_async_update_data_except(HA_async_update_data_try(Outcome(devices))),
         devices.gets)

\* a refresh that adds the result to the records data already holds
HA_refreshed_keeping(c, r) ==
    IF r.exc = "none"
    THEN [data |-> IF c.data = None THEN r.val
                   ELSE Dict([mac \in DOMAIN c.data.d \cup DOMAIN r.val.d |->
                                IF mac \in DOMAIN r.val.d THEN r.val.d[mac]
                                ELSE c.data.d[mac]]),
          last_update_success |-> TRUE, last_exception |-> "none"]
    ELSE [data |-> c.data, last_update_success |-> FALSE, last_exception |-> r.exc]

\* the coordinator after a refresh whose _async_update_data gave r: a result
\* becomes data, a failure keeps data and clears last_update_success
HA_refreshed(c, r) ==
    IF r.exc = "none"
    THEN [data |-> r.val, last_update_success |-> TRUE, last_exception |-> "none"]
    ELSE [data |-> c.data, last_update_success |-> FALSE, last_exception |-> r.exc]

-----------------------------------------------------------------------------
(* src/custom_components/govee_temperature/config_flow.py *)

\* "Authentication failed" in str(err), for the exception err the client's
\* get_devices raises on v: only the 401 branch puts these words in a message
Says_authentication_failed(v) == v.kind = "response" /\ v.status = 401

\* validate_input accepting an account without devices
HA_validate_input_try_any(devices) ==
    IF devices.exc # "none" THEN Outcome(devices)
    ELSE Ok([title_devices |-> Len(devices.val)])

\* the try block of validate_input, with `devices` the outcome of get_devices
HA_validate_input_try(devices) ==
    IF devices.exc # "none" THEN Outcome(devices)
    ELSE IF devices.val = <<>> THEN Raise("CannotConnect")
    ELSE Ok([title_devices |-> Len(devices.val)])

\* validate_input telling an authentication failure by the class of the
\* exception instead of its message
HA_validate_input_by_class(v, devices) ==
    IF HA_validate_input_try(devices).exc = "none" THEN HA_validate_input_try(devices)
    ELSE IF IsInstance(HA_validate_input_try(devices).exc, "ConfigEntryAuthFailed")
    THEN Raise("InvalidAuth")
    ELSE Raise("CannotConnect")

\* validate_input on the vendor's behaviour v: the except clause on the
\* outcome of the try block
HA_validate_input(v, devices) ==
    LET r == HA_validate_input_try(devices)
    IN  IF r.exc = "none" THEN r
        ELSE IF IsInstance(r.exc, "Exception")
        THEN IF devices.exc # "none" /\ Says_authentication_failed(v)
             THEN Raise("InvalidAuth")
             ELSE Raise("CannotConnect")
        ELSE r

\* errors["base"] after the except clauses of a step
HA_flow_error(exc) ==
    IF IsInstance(exc, "CannotConnect") THEN "cannot_connect"
    ELSE IF IsInstance(exc, "InvalidAuth") THEN "invalid_auth"
    ELSE "unknown"

\* const.py
DEFAULT_SCAN_INTERVAL == 300
MIN_SCAN_INTERVAL == 60

\* vol.Coerce(int) alone on the scan interval of the form
Vol_scan_interval_unranged(x) ==
    IF PyInt(x).exc \in {"ValueError", "TypeError"} THEN Raise("Invalid")
    ELSE PyInt(x)

\* vol.All(vol.Coerce(int), vol.Range(min=MIN_SCAN_INTERVAL)) on the scan
\* interval x of the form: Coerce turns the ValueError and TypeError of int(x)
\* into Invalid, Range refuses what is below min
Vol_scan_interval(x) ==
    IF PyInt(x).exc \in {"ValueError", "TypeError"} THEN Raise("Invalid")
    ELSE IF PyInt(x).exc # "none" THEN PyInt(x)
    ELSE IF PyInt(x).val < MIN_SCAN_INTERVAL THEN Raise("Invalid")
    ELSE PyInt(x)

\* `str` as a validator
Vol_str(x) == IF x.k = "str" THEN Ok(x) ELSE Raise("Invalid")

\* STEP_USER_DATA_SCHEMA(form) on the dict the form was submitted with: both
\* credentials required, the scan interval optional with a default, no other
\* key allowed
STEP_USER_DATA_SCHEMA(form) ==
    IF ~({"auth_token", "client_id"} \subseteq DOMAIN form) THEN Raise("Invalid")
    ELSE IF ~(DOMAIN form \subseteq {"auth_token", "client_id", "scan_interval"})
    THEN Raise("Invalid")
    ELSE IF Vol_str(form.auth_token).exc # "none" THEN Raise("Invalid")
    ELSE IF Vol_str(form.client_id).exc # "none" THEN Raise("Invalid")
    ELSE IF "scan_interval" \notin DOMAIN form
    THEN Ok([auth_token |-> form.auth_token, client_id |-> form.client_id,
             scan_interval |-> IntV(DEFAULT_SCAN_INTERVAL)])
    ELSE IF Vol_scan_interval(form.scan_interval).exc # "none"
    THEN Outcome(Vol_scan_interval(form.scan_interval))
    ELSE Ok([auth_token |-> form.auth_token, client_id |-> form.client_id,
             scan_interval |-> IntV(Vol_scan_interval(form.scan_interval).val)])

\* a reauth schema that lets keys it does not name through
STEP_REAUTH_DATA_SCHEMA_allow_extra(form) ==
    IF "auth_token" \notin DOMAIN form THEN Raise("Invalid")
    ELSE IF Vol_str(form.auth_token).exc # "none" THEN Raise("Invalid")
    ELSE Ok(form)

\* STEP_REAUTH_DATA_SCHEMA(form): the token required, no other key allowed
STEP_REAUTH_DATA_SCHEMA(form) ==
    IF "auth_token" \notin DOMAIN form THEN Raise("Invalid")
    ELSE IF DOMAIN form # {"auth_token"} THEN Raise("Invalid")
    ELSE IF Vol_str(form.auth_token).exc # "none" THEN Raise("Invalid")
    ELSE Ok(form)

\* {**a, **b}
Merged(a, b) ==
    [key \in DOMAIN a \cup DOMAIN b |-> IF key \in DOMAIN b THEN b[key] ELSE a[key]]

\* _abort_if_unique_id_configured() after async_set_unique_id for client_id:
\* whether an entry of `entries` has this unique id
HA_unique_id_configured(entries, client_id) ==
    \E i \in DOMAIN entries : entries[i].data.client_id = client_id

\* a step's result: a form, an abort or a new entry
FlowResult(type, step_id, errors, reason, entry, data) ==
    [type |-> type, step_id |-> step_id, errors |-> errors, reason |-> reason,
     entry |-> entry, data |-> data]

\* the try block of async_step_user, `info` the outcome of validate_input and
\* configured whether an entry with this client id exists:
\* _abort_if_unique_id_configured raises AbortFlow inside the block
HA_async_step_user_try(info, configured) ==
    IF info.exc # "none" THEN Outcome(info)
    ELSE IF configured THEN Raise("AbortFlow")
    ELSE Ok("create_entry")

\* async_step_user with user input: the except clauses on the outcome of the
\* try block, the last of them `except Exception`
HA_async_step_user(info, configured, user_input) ==
    IF HA_async_step_user_try(info, configured).exc = "none"
    THEN FlowResult("create_entry", "user", "none", "none", "created", user_input)
    ELSE IF IsInstance(HA_async_step_user_try(info, configured).exc, "Exception")
    THEN FlowResult("form", "user",
                    HA_flow_error(HA_async_step_user_try(info, configured).exc),
                    "none", "none", None)
    ELSE IF HA_async_step_user_try(info, configured).exc = "AbortFlow"
    THEN FlowResult("abort", "user", "none", "already_configured", "none", None)
    ELSE FlowResult("raise", "user", "none",
                    HA_async_step_user_try(info, configured).exc, "none", None)

\* async_step_reauth_confirm with user input on the entry whose data is
\* entry_data: on success new_data = {**self._reauth_entry.data, **user_input}
HA_async_step_reauth_confirm(info, entry_data, user_input) ==
    IF info.exc = "none"
    THEN FlowResult("abort", "reauth_confirm", "none", "reauth_successful",
                    "updated", Merged(entry_data, user_input))
    ELSE IF IsInstance(info.exc, "Exception")
    THEN FlowResult("form", "reauth_confirm", HA_flow_error(info.exc), "none",
                    "none", None)
    ELSE FlowResult("raise", "reauth_confirm", "none", info.exc, "none", None)

\* GoveeTemperatureCoordinator.__init__ on an entry with this data: the
\* client's credentials and update_interval, in seconds
HA_coordinator_init(data) ==
    [auth_token |-> data.auth_token, client_id |-> data.client_id,
     update_interval |-> GetOr(data, "scan_interval", IntV(DEFAULT_SCAN_INTERVAL)).v]

\* an entry the host has set up: its data and the coordinator constructed
\* from it
Loaded(data) == [data |-> data, coordinator |-> HA_coordinator_init(data)]

-----------------------------------------------------------------------------
(* src/custom_components/govee_temperature/binary_sensor.py and sensor.py  *)
(* The coordinator c has c.data a dict keyed by MAC (None before the first *)
(* refresh).                                                               *)

BINARY_SENSOR_DESCRIPTIONS ==
    {"online", "temperature_warning", "humidity_warning", "power_save_mode"}

SENSOR_DESCRIPTIONS ==
    {"temperature", "humidity", "battery", "online", "wifi_level", "temperature_warning",
     "humidity_warning", "upload_rate", "power_save_mode", "avg_day_temperature",
     "avg_day_humidity"}

\* the keys sensor.py treats as boolean sensors
BooleanSensorKeys ==
    {"online", "temperature_warning", "humidity_warning", "power_save_mode"}

\* "mac in coordinator.data"
InData(c, mac) == c.data.k = "dict" /\ mac \in DOMAIN c.data.d

\* async_setup_entry testing "if sensor_value" instead of "is not None"
HA_binary_setup_entry_truthy(c) ==
    { <<mac, key>> \in (DOMAIN c.data.d) \X BINARY_SENSOR_DESCRIPTIONS :
        Truthy(Get(c.data.d[mac], key)) }

\* binary_sensor.async_setup_entry: the <<MAC, key>> of the entities it adds
HA_binary_setup_entry(c) ==
    { <<mac, key>> \in (DOMAIN c.data.d) \X BINARY_SENSOR_DESCRIPTIONS :
        Get(c.data.d[mac], key) # None }

\* GoveeBinarySensor.available
HA_binary_available(c, mac, key) ==
    IF ~c.last_update_success \/ ~InData(c, mac) THEN FALSE
    ELSE Get(c.data.d[mac], key) # None

\* GoveeBinarySensor.is_on
HA_binary_is_on(c, mac, key) ==
    IF ~InData(c, mac) THEN None ELSE Get(c.data.d[mac], key)

\* sensor.async_setup_entry testing "if sensor_value" alone
HA_sensor_setup_entry_truthy(c) ==
    { <<mac, key>> \in (DOMAIN c.data.d) \X SENSOR_DESCRIPTIONS :
        Truthy(Get(c.data.d[mac], key)) }

\* sensor.async_setup_entry: the <<MAC, key>> of the entities it adds
HA_sensor_setup_entry(c) ==
    { <<mac, key>> \in (DOMAIN c.data.d) \X SENSOR_DESCRIPTIONS :
        LET sensor_value == Get(c.data.d[mac], key)
        IN  \/ sensor_value # None
            \/ key = "humidity" /\ sensor_value = FloatV(0, 0)
            \/ key \in BooleanSensorKeys /\ sensor_value # None }

\* available without the test of last_update_success
HA_sensor_available_stale(c, mac, key) ==
    IF ~InData(c, mac) THEN FALSE ELSE Get(c.data.d[mac], key) # None

\* GoveeSensor.available
HA_sensor_available(c, mac, key) ==
    IF ~c.last_update_success \/ ~InData(c, mac) THEN FALSE
    ELSE LET sensor_value == Get(c.data.d[mac], key)
         IN  IF key = "humidity" THEN sensor_value # None
             ELSE IF key \in BooleanSensorKeys THEN sensor_value # None
             ELSE sensor_value # None

\* native_value returning the mapping's value for every key
HA_sensor_native_value_raw(c, mac, key) ==
    IF ~InData(c, mac) THEN None ELSE Get(c.data.d[mac], key)

\* GoveeSensor.native_value
HA_sensor_native_value(c, mac, key) ==
    IF ~InData(c, mac) THEN None
    ELSE LET sensor_value == Get(c.data.d[mac], key)
         IN  IF key \in BooleanSensorKeys
             THEN IF sensor_value = None THEN None
                  ELSE IF Truthy(sensor_value) THEN StrV("On") ELSE StrV("Off")
             ELSE sensor_value

\* src/custom_components/govee_temperature/const.py
DEVICE_MODELS ==
    [ H5051 |-> "WiFi Thermo-Hygrometer", H5074 |-> "Bluetooth Thermo-Hygrometer",
      H5075 |-> "Bluetooth Thermo-Hygrometer", H5101 |-> "WiFi Thermo-Hygrometer",
      H5102 |-> "WiFi Thermo-Hygrometer", H5179 |-> "WiFi Thermo-Hygrometer" ]

\* str(x) as an f-string formats a scalar
Format(x) ==
    CASE x.k = "none" -> "None"
      [] x.k = "str" -> x.s
      [] x.k = "bool" -> IF x.b THEN "True" ELSE "False"
      [] OTHER -> ToString(x.v)

\* the sensor-based detection at the end of _get_device_model
HA_model_by_sensors(device_data) ==
    LET has_temp == Get(device_data, "temperature") # None
        has_humidity == Get(device_data, "humidity") # None
    IN  IF has_temp /\ has_humidity THEN "Temperature/Humidity Sensor"
        ELSE IF has_temp THEN "Temperature Sensor"
        ELSE IF has_humidity THEN "Humidity Sensor"
        ELSE "Sensor"

\* GoveeSensor._get_device_model and GoveeBinarySensor._get_device_model (the
\* same code); a list or dict is unhashable, so "in DEVICE_MODELS" raises
HA_get_device_model(device_data) ==
    LET model_sku == GetOr(device_data, "model", StrV("Unknown"))
    IN  IF model_sku.k \in {"list", "dict"} THEN Raise("TypeError")
        ELSE IF model_sku.k = "str" /\ model_sku.s \in DOMAIN DEVICE_MODELS
        THEN Ok(StrV(DEVICE_MODELS[model_sku.s]))
        ELSE IF model_sku # StrV("Unknown")
        THEN Ok(StrV(Format(model_sku) \o " Sensor"))
        ELSE Ok(StrV(HA_model_by_sensors(device_data)))

-----------------------------------------------------------------------------
(* The raw inputs the specifications draw from.  In a table of candidate   *)
(* members, Absent marks a key that the object does not have.              *)

Absent == [k |-> "absent"]

\* the JSON object with the members of f that are not Absent
Obj(f) == Dict([key \in {x \in DOMAIN f : f[x] # Absent} |-> f[key]])

\* deviceSettings documents
SettingsDocs ==
    { Obj([ battery |-> b, temWarning |-> tw, humWarning |-> hw,
            powerSaveModeState |-> ps, wifiLevel |-> net[1], uploadRate |-> net[2] ]) :
        b \in {Absent, IntV(0), IntV(85), StrV("bad")},
        tw \in {Absent, BoolV(FALSE), BoolV(TRUE)},
        hw \in {Absent, BoolV(FALSE)},
        ps \in {Absent, BoolV(FALSE)},
        net \in {<<Absent, Absent>>, <<IntV(0), IntV(600)>>} }

\* lastDeviceData documents
TelemetryDocs ==
    { Obj([ online |-> o, tem |-> t, hum |-> h, lastTime |-> lt,
            avgDayTem |-> avg[1], avgDayHum |-> avg[2] ]) :
        o \in {Absent, BoolV(FALSE), BoolV(TRUE)},
        t \in {Absent, None, IntV(0), IntV(2160), IntV(-550), StrV("bad")},
        h \in {Absent, IntV(0), IntV(5500)},
        lt \in {Absent, IntV(1700000000)},
        avg \in {<<Absent, Absent>>, <<IntV(2105), IntV(0)>>} }
    \cup { Obj([ online |-> BoolV(TRUE), tem |-> StrV("2160"), hum |-> IntV(5500),
                 lastTime |-> StrV("bad") ]),
           Obj([ online |-> BoolV(TRUE), tem |-> Infinity, hum |-> IntV(5500) ]),
           Obj([ online |-> BoolV(TRUE), tem |-> FloatV(21, 60), hum |-> FloatV(55, 0) ]) }

\* values of a deviceSettings / lastDeviceData member that are not the text of
\* a JSON object: key absent, null, "", text that is not JSON, the text of a
\* JSON array, and a number where the string is expected
BrokenStrings ==
    { Absent, None, Text(EmptyText), Text(MalformedText), Text(JsonText(List)), IntV(7) }

SettingsValues == BrokenStrings \cup { Text(JsonText(d)) : d \in SettingsDocs }
TelemetryValues == BrokenStrings \cup { Text(JsonText(d)) : d \in TelemetryDocs }

ExtObj(s, t) == Obj([ deviceSettings |-> s, lastDeviceData |-> t ])

\* one well-formed pair of sub-documents
SomeSettings ==
    Text(JsonText(Obj([ battery |-> IntV(85), temWarning |-> BoolV(FALSE),
                        powerSaveModeState |-> BoolV(TRUE), wifiLevel |-> IntV(3) ])))
SomeTelemetry ==
    Text(JsonText(Obj([ online |-> BoolV(TRUE), tem |-> IntV(2160), hum |-> IntV(5500) ])))

\* a device-list element with the given name, MAC, SKU and deviceExt
Entry(name, mac, sku, ext) ==
    Obj([ deviceId |-> IntV(1), groupId |-> IntV(0), sku |-> sku, device |-> mac,
          versionHard |-> StrV("1.00.00"), versionSoft |-> StrV("1.02.03"),
          deviceName |-> name, deviceExt |-> ext ])

EntryKeys ==
    {"deviceId", "groupId", "sku", "device", "versionHard", "versionSoft", "deviceName"}

\* e with member key replaced by v (removed when v is Absent)
With(e, key, v) ==
    Dict([x \in (DOMAIN e.d \ {key}) \cup (IF v = Absent THEN {} ELSE {key}) |->
            IF x = key THEN v ELSE e.d[x]])

GoodEntry == Entry(StrV("Living Room"), StrV("AA:BB"), StrV("H5075"),
                   ExtObj(SomeSettings, SomeTelemetry))

\* a second pair, with the zero and false values
ZeroSettings ==
    Text(JsonText(Obj([ battery |-> IntV(0), humWarning |-> BoolV(FALSE),
                        powerSaveModeState |-> BoolV(FALSE) ])))
ZeroTelemetry ==
    Text(JsonText(Obj([ online |-> BoolV(FALSE), tem |-> IntV(0), hum |-> IntV(0),
                        lastTime |-> IntV(1700000000) ])))

\* lastDeviceData with and without a temperature and a humidity
SensorTelemetry ==
    { Text(JsonText(Obj([ online |-> BoolV(TRUE), tem |-> t, hum |-> h ]))) :
        t \in {Absent, IntV(2160)}, h \in {Absent, IntV(5500)} }

\* devices of a known SKU, an unknown one, the SKU "Unknown", "" and null
SkuEntries ==
    { Entry(StrV("Living Room"), StrV("AA:BB"), sku, ExtObj(SomeSettings, t)) :
        sku \in {StrV("H5051"), StrV("H9999"), StrV("Unknown"), StrV(""), None},
        t \in SensorTelemetry }

\* the elements ParseSpec hands to the parsers: every deviceSettings value with
\* a few lastDeviceData values and the other way round, elements with one
\* member missing or of the wrong type, and elements that are no object
RawEntries ==
    { Entry(StrV("Living Room"), StrV("AA:BB"), StrV("H5075"), ExtObj(s, t)) :
        s \in SettingsValues, t \in BrokenStrings \cup {SomeTelemetry, ZeroTelemetry} }
    \cup { Entry(StrV("Living Room"), StrV("AA:BB"), StrV("H5075"), ExtObj(s, t)) :
        s \in BrokenStrings \cup {SomeSettings, ZeroSettings}, t \in TelemetryValues }
    \cup { With(GoodEntry, key, v) : key \in EntryKeys, v \in {Absent, None, List} }
    \cup { With(With(GoodEntry, "deviceName", n), "device", m) :
             n \in {Absent, StrV("Living Room")}, m \in {Absent, StrV("AA:BB")} }
    \cup { With(With(GoodEntry, "deviceExt", x), key, v) :
             x \in {Absent, None, IntV(7), Dict(<<>>)},
             key \in {"deviceName", "device"}, v \in {Absent, StrV("x")} }
    \cup { None, StrV("device"), List }
    \cup SkuEntries

-----------------------------------------------------------------------------
(* ParseSpec: one raw element, handed to the two parsers and fetched by the *)
(* two clients inside a device list, between two well-formed siblings      *)

GarageEntry ==
    Entry(StrV("Garage"), StrV("CC:DD"), StrV("H9999"), ExtObj(ZeroSettings, ZeroTelemetry))

\* the 2xx body with the given device list
DevicesBody(items) == Obj([data |-> Obj([devices |-> ListOf(items)])])

\* the response whose device list holds e between the two siblings
Among(e) == Response(200, DevicesBody(<<GoodEntry, e, GarageEntry>>))

NotParsed == [by |-> "none", res |-> Ok(None)]

Idle == [op |-> "none"]

ParseInit ==
    /\ program = "parser"
    /\ raw \in RawEntries
    /\ parsed = NotParsed
    /\ vendor = Idle
    /\ reply = Idle
    /\ coordinator = Idle
    /\ entities = <<>>
    /\ config_entries = <<>>

\* the package's GoveeDevice.from_api_response(raw)
PkgParse ==
    /\ parsed' = [by |-> "package", res |-> Pkg_from_api_response(raw)]
    /\ UNCHANGED <<config_entries, entities, program, raw, vendor, reply, coordinator>>

\* the integration's GoveeDevice.from_api_response(raw)
HAParse ==
    /\ parsed' = [by |-> "integration", res |-> HA_from_api_response(raw)]
    /\ UNCHANGED <<config_entries, entities, program, raw, vendor, reply, coordinator>>

\* the package's GoveeClient.get_devices() on the list holding raw
PkgFetch ==
    /\ vendor' = Among(raw)
    /\ reply' = [op |-> "get_devices", by |-> "package", res |-> Pkg_get_devices(Among(raw))]
    /\ UNCHANGED <<config_entries, entities, program, raw, parsed, coordinator>>

\* the integration's GoveeClient.get_devices() on the list holding raw
HAFetch ==
    /\ vendor' = Among(raw)
    /\ reply' = [op |-> "get_devices", by |-> "integration",
                 res |-> HA_get_devices(Among(raw))]
    /\ UNCHANGED <<config_entries, entities, program, raw, parsed, coordinator>>

\* a DeviceExt holding the two given strings
ExtOf(device_settings, last_device_data) ==
    [ device_settings |-> device_settings, last_device_data |-> last_device_data ]

\* the string a kept sub-document is encoded to; None stays None (no string)
Encoded(x) == IF x = None THEN None ELSE json_dumps(x)

\* the sub-documents kept in raw_data, encoded with json.dumps and parsed again
\* by the sub-document parsers of the generation that parsed raw
Reparse ==
    /\ parsed.res.exc = "none" /\ parsed.res.val.k = "device"
    /\ LET raw_data == parsed.res.val.data.raw_data
           ext == ExtOf(Encoded(raw_data.device_settings),
                        Encoded(raw_data.last_device_data))
       IN  reply' = [ op |-> "reparse", by |-> parsed.by,
                      device_settings |->
                          IF parsed.by = "package" THEN Pkg_get_parsed_device_settings(ext)
                          ELSE HA_get_parsed_device_settings(ext),
                      last_device_data |->
                          IF parsed.by = "package" THEN Pkg_get_parsed_last_device_data(ext)
                          ELSE HA_get_parsed_last_device_data(ext) ]
    /\ UNCHANGED <<config_entries, entities, program, raw, parsed, vendor, coordinator>>

\* device_info of an entity of the integration: the model it reports for the
\* coordinator's record of the parsed device, or for {} when the device is not
\* in the mapping (coordinator.data.get(mac, {}))
DeviceInfo ==
    /\ parsed.by = "integration"
    /\ parsed.res.exc = "none" /\ parsed.res.val.k = "device"
    /\ \E in_data \in BOOLEAN :
          reply' = [ op |-> "device_info", in_data |-> in_data,
                     model |-> HA_get_device_model(
                                  IF in_data THEN HA_processed_device(parsed.res.val)
                                  ELSE <<>>) ]
    /\ UNCHANGED <<config_entries, entities, program, raw, parsed, vendor, coordinator>>

ParseNext == PkgParse \/ HAParse \/ PkgFetch \/ HAFetch \/ Reparse \/ DeviceInfo

ParseSpec == ParseInit /\ [][ParseNext]_vars

-----------------------------------------------------------------------------
(* Spec: the programs against the vendor endpoint.  A behaviour is a run   *)
(* of one of them: the package's client and its HTTP facade, the           *)
(* integration's coordinator, or the integration's config flow.            *)

\* the longest device list of a response
MaxDevices == 2

\* the elements of the device lists: two devices, an element without
\* deviceName, and a device sharing a MAC and a name with the others whose
\* sub-documents are a JSON array and text that is not JSON
ListEntries ==
    { GoodEntry,
      GarageEntry,
      With(GoodEntry, "deviceName", Absent),
      Entry(StrV("Garage"), StrV("AA:BB"), StrV("H5075"),
            ExtObj(Text(JsonText(List)), Text(MalformedText))) }

DeviceLists == UNION { [1..n -> ListEntries] : n \in 0..MaxDevices }

\* the 2xx bodies: not JSON, a JSON array, objects without data or devices,
\* with a null in their place, and objects with a device list
Bodies ==
    { NotJson, List, Dict(<<>>), Obj([data |-> None]), Obj([data |-> Dict(<<>>)]),
      Obj([data |-> Obj([devices |-> None])]) }
    \cup { DevicesBody(l) : l \in DeviceLists }

Vendors ==
    { Response(200, b) : b \in Bodies }
    \cup { Response(st, Dict(<<>>)) : st \in {401, 403, 500} }
    \cup { Response(401, DevicesBody(<<GoodEntry>>)) }
    \cup { Failure("ConnectError"), Failure("ReadTimeout") }

\* the environments of the facade
Envs ==
    { [GOVEE_AUTH_TOKEN |-> t, GOVEE_CLIENT_ID |-> c] :
        t \in {Unset, StrV(""), StrV("token")}, c \in {Unset, StrV("client")} }

\* the names GET /device/{name} is asked for
Names == { StrV("Living Room"), StrV("Garage"), StrV("Nowhere") }

Configured(env) == Main_get_client(env).exc = "none"

\* what the one GET of a request to the facade can meet: nothing is sent when
\* the environment is not configured
Upstream(env) == IF Configured(env) THEN Vendors ELSE {Idle}

\* the outcome of the package's GoveeClient.get_devices() for each behaviour of
\* the vendor
Pkg_fetched == [v \in Vendors |-> Pkg_get_devices(v)]

\* the outcome of the integration's GoveeClient.get_devices() for each
\* behaviour of the vendor
HA_fetched == [v \in Vendors |-> HA_get_devices(v)]

\* the coordinator before its first refresh
NoData == [data |-> None, last_update_success |-> TRUE, last_exception |-> "none"]

Init ==
    /\ program \in {"service", "integration", "config_flow"}
    /\ raw = None
    /\ parsed = NotParsed
    /\ vendor = Idle
    /\ reply = Idle
    /\ coordinator = NoData
    /\ entities = <<>>
    /\ config_entries = <<>>

\* a caller awaits the package's GoveeClient.get_devices()
ClientGetDevices ==
    /\ program = "service"
    /\ \E v \in Vendors :
          /\ vendor' = v
          /\ reply' = [op |-> "get_devices", res |-> Pkg_fetched[v]]
    /\ UNCHANGED <<config_entries, entities, program, raw, parsed, coordinator>>

\* a caller awaits the package's GoveeClient.get_device_by_name(name)
ClientGetDeviceByName ==
    /\ program = "service"
    /\ \E v \in Vendors, name \in Names :
          /\ vendor' = v
          /\ reply' = [op |-> "get_device_by_name", name |-> name,
                       res |-> Pkg_get_device_by_name(Pkg_fetched[v], name.s)]
    /\ UNCHANGED <<config_entries, entities, program, raw, parsed, coordinator>>

\* a caller awaits the package's GoveeClient.get_temperature(name)
ClientGetTemperature ==
    /\ program = "service"
    /\ \E v \in Vendors, name \in Names :
          /\ vendor' = v
          /\ reply' = [op |-> "get_temperature", name |-> name,
                       res |-> Pkg_get_temperature(
                                  Pkg_get_device_by_name(Pkg_fetched[v], name.s))]
    /\ UNCHANGED <<config_entries, entities, program, raw, parsed, coordinator>>

\* GET /devices on the facade
GetDevices ==
    /\ program = "service"
    /\ \E env \in Envs : \E v \in Upstream(env) :
          /\ vendor' = v
          /\ reply' = [op |-> "GET /devices", env |-> env,
                       answer |-> Main_get_devices(env, Pkg_fetched[v])]
    /\ UNCHANGED <<config_entries, entities, program, raw, parsed, coordinator>>

\* GET /device/{name} on the facade
GetDevice ==
    /\ program = "service"
    /\ \E env \in Envs, name \in Names : \E v \in Upstream(env) :
          /\ vendor' = v
          /\ reply' = [op |-> "GET /device", env |-> env, name |-> name,
                       answer |-> Main_get_device(env, Pkg_fetched[v], name.s)]
    /\ UNCHANGED <<config_entries, entities, program, raw, parsed, coordinator>>

\* GET /health on the facade
HealthCheck ==
    /\ program = "service"
    /\ vendor' = Idle
    /\ reply' = [op |-> "GET /health", answer |-> Main_health_check]
    /\ UNCHANGED <<config_entries, entities, program, raw, parsed, coordinator>>

\* a caller awaits the integration's GoveeClient.get_devices()
HAGetDevices ==
    /\ program = "integration"
    /\ \E v \in Vendors :
          /\ vendor' = v
          /\ reply' = [op |-> "get_devices", res |-> HA_fetched[v]]
    /\ UNCHANGED <<config_entries, entities, program, raw, parsed, coordinator>>

\* the entities of the platforms set up so far, decided anew on coordinator c
Readded(c) ==
    [platform \in DOMAIN entities |->
        IF c.data = None THEN entities[platform]
        ELSE IF platform = "sensor" THEN HA_sensor_setup_entry(c)
        ELSE HA_binary_setup_entry(c)]

\* a refresh after which the platforms decide their entities again
Poll_adding_entities ==
    /\ program = "integration"
    /\ \E v \in Vendors :
          LET r == HA_async_update_data(HA_fetched[v])
          IN  /\ vendor' = v
              /\ reply' = [op |-> "poll", res |-> r]
              /\ coordinator' = HA_refreshed(coordinator, r)
              /\ entities' = Readded(HA_refreshed(coordinator, r))
    /\ UNCHANGED <<config_entries, program, raw, parsed>>

\* the host refreshes the coordinator: one _async_update_data
Poll ==
    /\ program = "integration"
    /\ \E v \in Vendors :
          LET r == HA_async_update_data(HA_fetched[v])
          IN  /\ vendor' = v
              /\ reply' = [op |-> "poll", res |-> r]
              /\ coordinator' = HA_refreshed(coordinator, r)
    /\ UNCHANGED <<config_entries, entities, program, raw, parsed>>

\* the forms Spec submits
OneToken == StrV("token")
OneClientId == StrV("client")
OneUserForm == {Obj([auth_token |-> OneToken, client_id |-> OneClientId]).d}
OneReauthForm == {Obj([auth_token |-> OneToken]).d}

\* the user submits a form of `forms` to the config flow's user step while the
\* vendor behaves as one of `vendors`: the host hands the step what
\* STEP_USER_DATA_SCHEMA makes of the form, or refuses the form, and sets up
\* the entry the step creates
UserStepOf(vendors, forms) ==
    /\ program = "config_flow"
    /\ \E form \in forms :
          IF STEP_USER_DATA_SCHEMA(form).exc # "none"
          THEN /\ vendor' = Idle
               /\ reply' = [op |-> "invalid_form", step_id |-> "user", form |-> form]
               /\ config_entries' = config_entries
          ELSE \E v \in vendors :
                  LET user_input == STEP_USER_DATA_SCHEMA(form).val
                      info == HA_validate_input(v, HA_fetched[v])
                      configured ==
                          HA_unique_id_configured(config_entries, user_input.client_id)
                      result == HA_async_step_user(info, configured, user_input)
                  IN  /\ vendor' = v
                      /\ reply' = [op |-> "async_step_user", form |-> form,
                                   configured |-> configured, info |-> info,
                                   result |-> result]
                      /\ config_entries' =
                            IF result.type = "create_entry"
                            THEN Append(config_entries, Loaded(result.data))
                            ELSE config_entries
    /\ UNCHANGED <<entities, program, raw, parsed, coordinator>>

\* the user submits a form of `forms` to the reauth_confirm step of a flow
\* started for one of the entries: on success the step updates the entry's
\* data and reloads the entry
ReauthConfirmStepOf(vendors, forms) ==
    /\ program = "config_flow"
    /\ \E i \in DOMAIN config_entries, form \in forms :
          IF STEP_REAUTH_DATA_SCHEMA(form).exc # "none"
          THEN /\ vendor' = Idle
               /\ reply' = [op |-> "invalid_form", step_id |-> "reauth_confirm",
                            form |-> form]
               /\ config_entries' = config_entries
          ELSE \E v \in vendors :
                  LET user_input == STEP_REAUTH_DATA_SCHEMA(form).val
                      info == HA_validate_input(v, HA_fetched[v])
                      result == HA_async_step_reauth_confirm(
                                    info, config_entries[i].data, user_input)
                  IN  /\ vendor' = v
                      /\ reply' = [op |-> "async_step_reauth_confirm", form |-> form,
                                   entry_index |-> i,
                                   entry_data |-> config_entries[i].data,
                                   info |-> info, result |-> result]
                      /\ config_entries' =
                            IF result.entry = "updated"
                            THEN [config_entries EXCEPT ![i] = Loaded(result.data)]
                            ELSE config_entries
    /\ UNCHANGED <<entities, program, raw, parsed, coordinator>>

\* the user submits the form of the config flow's user step
UserStep == UserStepOf(Vendors, OneUserForm)

\* the user submits the form of the config flow's reauth_confirm step
ReauthConfirmStep == ReauthConfirmStepOf(Vendors, OneReauthForm)

\* the MACs an entity can have been set up for
Macs == {"AA:BB", "CC:DD"}

\* the host sets up the binary_sensor platform, after a first refresh
BinarySensorSetup ==
    /\ program = "integration"
    /\ coordinator.data # None
    /\ vendor' = Idle
    /\ reply' = [op |-> "binary_sensor.async_setup_entry",
                 entities |-> HA_binary_setup_entry(coordinator)]
    /\ UNCHANGED <<config_entries, entities, program, raw, parsed, coordinator>>

\* the host sets up the sensor platform, after a first refresh
SensorSetup ==
    /\ program = "integration"
    /\ coordinator.data # None
    /\ vendor' = Idle
    /\ reply' = [op |-> "sensor.async_setup_entry",
                 entities |-> HA_sensor_setup_entry(coordinator)]
    /\ UNCHANGED <<config_entries, entities, program, raw, parsed, coordinator>>

\* the host reads the state of a binary sensor set up earlier
BinarySensorState ==
    /\ program = "integration"
    /\ coordinator.data # None
    /\ vendor' = Idle
    /\ \E mac \in Macs, key \in BINARY_SENSOR_DESCRIPTIONS :
          reply' = [op |-> "binary_sensor", mac |-> mac, key |-> key,
                    available |-> HA_binary_available(coordinator, mac, key),
                    is_on |-> HA_binary_is_on(coordinator, mac, key)]
    /\ UNCHANGED <<config_entries, entities, program, raw, parsed, coordinator>>

\* the host reads the state of a sensor set up earlier
SensorState ==
    /\ program = "integration"
    /\ coordinator.data # None
    /\ vendor' = Idle
    /\ \E mac \in Macs, key \in SENSOR_DESCRIPTIONS :
          reply' = [op |-> "sensor", mac |-> mac, key |-> key,
                    available |-> HA_sensor_available(coordinator, mac, key),
                    native_value |-> HA_sensor_native_value(coordinator, mac, key)]
    /\ UNCHANGED <<config_entries, entities, program, raw, parsed, coordinator>>

Next ==
    \/ ClientGetDevices
    \/ ClientGetDeviceByName
    \/ ClientGetTemperature
    \/ GetDevices
    \/ GetDevice
    \/ HealthCheck
    \/ HAGetDevices
    \/ Poll
    \/ UserStep
    \/ ReauthConfirmStep
    \/ BinarySensorSetup
    \/ SensorSetup
    \/ BinarySensorState
    \/ SensorState

Spec == Init /\ [][Next]_vars

-----------------------------------------------------------------------------
(* EntrySpec: one config entry of the integration.  The host refreshes the  *)
(* coordinator, sets up each platform once after a first refresh, and reads *)
(* the state of the entities the platforms added.                          *)

Platforms == {"binary_sensor", "sensor"}

\* async_setup_entry of a platform: the <<MAC, key>> handed to async_add_entities
HA_setup_entry(platform, c) ==
    IF platform = "sensor" THEN HA_sensor_setup_entry(c) ELSE HA_binary_setup_entry(c)

EntryInit ==
    /\ program = "integration"
    /\ raw = None
    /\ parsed = NotParsed
    /\ vendor = Idle
    /\ reply = Idle
    /\ coordinator = NoData
    /\ entities = <<>>
    /\ config_entries = <<>>

\* the host sets up a platform of the entry: its async_setup_entry runs once,
\* on the data the coordinator holds then
PlatformSetup ==
    /\ program = "integration"
    /\ coordinator.data # None
    /\ vendor' = Idle
    /\ \E platform \in Platforms \ DOMAIN entities :
          /\ entities' = Put(entities, platform, HA_setup_entry(platform, coordinator))
          /\ reply' = [op |-> "async_setup_entry", platform |-> platform,
                       entities |-> HA_setup_entry(platform, coordinator)]
    /\ UNCHANGED <<config_entries, program, raw, parsed, coordinator>>

\* the host reads the state of an entity a platform has added
EntityState ==
    /\ program = "integration"
    /\ vendor' = Idle
    /\ \E platform \in DOMAIN entities : \E e \in entities[platform] :
          reply' = [op |-> "state", platform |-> platform, mac |-> e[1], key |-> e[2],
                    available |->
                        IF platform = "sensor"
                        THEN HA_sensor_available(coordinator, e[1], e[2])
                        ELSE HA_binary_available(coordinator, e[1], e[2]),
                    value |->
                        IF platform = "sensor"
                        THEN HA_sensor_native_value(coordinator, e[1], e[2])
                        ELSE HA_binary_is_on(coordinator, e[1], e[2])]
    /\ UNCHANGED <<config_entries, entities, program, raw, parsed, coordinator>>

EntryNext == Poll \/ PlatformSetup \/ EntityState

EntrySpec == EntryInit /\ [][EntryNext]_vars

-----------------------------------------------------------------------------
(* Vocabulary of the claims about the parsers (ParseSpec) *)

RawHas(key) == raw.k = "dict" /\ key \in DOMAIN raw.d

\* raw has every scalar member GoveeDevice requires, each of its declared type
RawScalarsGood ==
    /\ raw.k = "dict"
    /\ \A c \in Pkg_GoveeDevice : c.a \in DOMAIN raw.d /\ raw.d[c.a].k = IF c.t = "int" THEN "int" ELSE "str"

\* the value of member key of raw's deviceExt object, Absent when it has none
SubValue(key) ==
    IF RawHas("deviceExt") /\ raw.d["deviceExt"].k = "dict"
          /\ key \in DOMAIN raw.d["deviceExt"].d
    THEN raw.d["deviceExt"].d[key]
    ELSE Absent

RawExtIsObject == RawHas("deviceExt") /\ raw.d["deviceExt"].k = "dict"

\* x is absent (no key, null) or a string that is not JSON
AbsentOrMalformed(x) ==
    \/ x \in {Absent, None}
    \/ x.k = "str" /\ "t" \in DOMAIN x /\ x.t.form \in {"empty", "malformed"}

\* x is the text of a JSON object whose members are null, booleans or integers
IsDocText(x) ==
    /\ x.k = "str" /\ "t" \in DOMAIN x /\ x.t.form = "json" /\ x.t.value.k = "dict"
    /\ \A key \in DOMAIN x.t.value.d : x.t.value.d[key].k \in {"none", "bool", "int"}

\* member key of the document in text x, None when the document has none
Member(x, key) == Get(x.t.value.d, key)

Parsed == parsed.by # "none"
Returned == parsed.res.exc = "none" /\ parsed.res.val.k = "device"
Skipped == parsed.res = Ok(None)
Data == parsed.res.val.data

SettingsDerived ==
    {"battery", "wifi_level", "temperature_warning", "humidity_warning", "upload_rate",
     "power_save_mode"}
TelemetryDerived ==
    {"temperature", "humidity", "online", "last_seen", "avg_day_temperature",
     "avg_day_humidity"}

\* y is x hundredths as a float: None for None, else w + f/100 = x/100
IsHundredthsOf(y, x) ==
    IF x.k = "none" THEN y = None
    ELSE y.k = "float" /\ y.f \in 0..99 /\ 100 * y.w + y.f = x.v

\* the settings-derived fields of the parsed device carry the members of text x
SettingsKept(x) ==
    /\ Data.battery = Member(x, "battery")
    /\ Data.wifi_level = Member(x, "wifiLevel")
    /\ Data.temperature_warning = Member(x, "temWarning")
    /\ Data.humidity_warning = Member(x, "humWarning")
    /\ Data.upload_rate = Member(x, "uploadRate")
    /\ Data.power_save_mode = Member(x, "powerSaveModeState")

\* the telemetry-derived fields of the parsed device carry the members of text x
TelemetryKept(x) ==
    /\ Data.online = Member(x, "online")
    /\ Data.last_seen = Member(x, "lastTime")
    /\ IsHundredthsOf(Data.temperature, Member(x, "tem"))
    /\ IsHundredthsOf(Data.humidity, Member(x, "hum"))
    /\ IsHundredthsOf(Data.avg_day_temperature, Member(x, "avgDayTem"))
    /\ IsHundredthsOf(Data.avg_day_humidity, Member(x, "avgDayHum"))

\* C5: deviceSettings and lastDeviceData are decoded independently: when one
\* is absent or malformed JSON the device is still returned, every field
\* derived from that sub-document is None, and every field derived from the
\* other sub-document, when it parses, keeps its value.
C5_IndependentSubDocuments ==
    (Parsed /\ RawScalarsGood /\ RawExtIsObject) =>
        LET s == SubValue("deviceSettings")
            t == SubValue("lastDeviceData")
        IN  /\ (AbsentOrMalformed(s) /\ (AbsentOrMalformed(t) \/ IsDocText(t))) =>
                  /\ Returned
                  /\ \A f \in SettingsDerived : Data[f] = None
                  /\ Data.raw_data.device_settings = None
                  /\ IsDocText(t) => TelemetryKept(t)
            /\ (AbsentOrMalformed(t) /\ (AbsentOrMalformed(s) \/ IsDocText(s))) =>
                  /\ Returned
                  /\ \A f \in TelemetryDerived : Data[f] = None
                  /\ Data.raw_data.last_device_data = None
                  /\ IsDocText(s) => SettingsKept(s)

\* C5 witness: deviceSettings is not JSON, lastDeviceData parses, and the
\* package's parser returned the device with temperature 21.6 and no battery
C5_Witness ==
    /\ parsed.by = "package" /\ Returned
    /\ SubValue("deviceSettings") = Text(MalformedText)
    /\ IsDocText(SubValue("lastDeviceData"))
    /\ Data.temperature = FloatV(21, 60) /\ Data.online = BoolV(TRUE)
    /\ Data.battery = None

\* the siblings of raw in the fetched list, as the parser returns them
GoodDevice == Pkg_from_api_response(GoodEntry).val
GarageDevice == Pkg_from_api_response(GarageEntry).val

\* a client has fetched the list holding raw
Fetched == reply.op = "get_devices"

\* raw is an object without deviceName or without device (the MAC)
RawLacksNameOrMac == raw.k = "dict" /\ (~RawHas("deviceName") \/ ~RawHas("device"))

C6_MissingDeviceExtReturned ==
    (Parsed /\ RawScalarsGood /\ ~RawHas("deviceExt")) =>
        /\ Returned
        /\ \A f \in SettingsDerived \cup TelemetryDerived : Data[f] = None

\* C6, amended: a record with deviceName and device but no deviceExt is
\* skipped, the parser returning None without raising; a record whose
\* deviceExt is an empty object is returned with every derived field None.
C6_MissingDeviceExtSkipped ==
    /\ (Parsed /\ RawScalarsGood /\ ~RawHas("deviceExt")) => Skipped
    /\ (Parsed /\ RawScalarsGood /\ RawHas("deviceExt")
          /\ raw.d["deviceExt"] = Dict(<<>>)) =>
            /\ Returned
            /\ \A f \in SettingsDerived \cup TelemetryDerived : Data[f] = None

\* C6 witness: the package's parser skipped a record that has every scalar
\* member and no deviceExt
C6_Witness ==
    /\ parsed.by = "package" /\ Skipped
    /\ RawScalarsGood /\ ~RawHas("deviceExt")

\* C7: for a record without deviceName or without device, from_api_response
\* returns None without raising, and get_devices leaves the record out of its
\* result.
C7_MissingNameOrMacSkipped ==
    RawLacksNameOrMac =>
        /\ Parsed => Skipped
        /\ Fetched => /\ reply.res.exc = "none"
                      /\ reply.res.val = <<GoodDevice, GarageDevice>>

\* C7 witness: a record with a name and no MAC, which the integration's parser
\* skipped and the package's get_devices left out from between its siblings
C7_Witness ==
    /\ RawHas("deviceName") /\ ~RawHas("device")
    /\ parsed.by = "integration" /\ Skipped
    /\ Fetched /\ reply.by = "package" /\ Len(reply.res.val) = 2

\* the four converted fields with the sub-document field and the JSON member
\* each comes from
Hundredths ==
    { <<"temperature", "tem", "tem">>, <<"humidity", "hum", "hum">>,
      <<"avg_day_temperature", "avg_day_tem", "avgDayTem">>,
      <<"avg_day_humidity", "avg_day_hum", "avgDayHum">> }

\* C10: for every returned device, temperature, humidity, avg_day_temperature
\* and avg_day_humidity are the integers tem, hum, avgDayTem and avgDayHum of
\* its parsed telemetry divided by 100, and None exactly when that integer is
\* absent; when lastDeviceData parses, that integer is the member of the JSON
\* document, so 2160 gives 21.6, 0 gives a present 0.0 and absent gives None.
C10_HundredthsConversion ==
    (Parsed /\ Returned) =>
        \A h \in Hundredths :
            /\ IsHundredthsOf(Data[h[1]], Attr(Data.raw_data.last_device_data, h[2]))
            /\ Data[h[1]] = None <=> Attr(Data.raw_data.last_device_data, h[2]) = None
            /\ IsDocText(SubValue("lastDeviceData")) =>
                  /\ IsHundredthsOf(Data[h[1]], Member(SubValue("lastDeviceData"), h[3]))
                  /\ Data[h[1]] = None <=> Member(SubValue("lastDeviceData"), h[3]) = None

\* C10 witness: tem = 0 and hum = 0 with no daily averages, which the
\* integration's parser returned as a present 0.0, 0.0 and two None
C10_Witness ==
    /\ parsed.by = "integration" /\ Returned
    /\ SubValue("lastDeviceData") = ZeroTelemetry
    /\ Data.temperature = FloatV(0, 0) /\ Data.humidity = FloatV(0, 0)
    /\ Data.avg_day_temperature = None /\ Data.avg_day_humidity = None

-----------------------------------------------------------------------------
(* Vocabulary of the claims about the clients, the facade and the          *)
(* integration (Spec) *)

\* the vendor answered with the given status
Status(st) == vendor.kind = "response" /\ vendor.status = st

\* the vendor answered with a status outside 2xx other than 401
OtherStatus ==
    vendor.kind = "response" /\ vendor.status \notin 200..299 /\ vendor.status # 401

\* the request failed at network level or timed out
NetworkFailure == vendor.kind = "failure"

\* C2: the package's get_devices raises GoveeAuthenticationError on status
\* 401, GoveeConnectionError on a network failure or timeout, and a plain
\* GoveeClientError on any other non-2xx status.
C2_TypedClientFailures ==
    (program = "service" /\ reply.op = "get_devices") =>
        /\ Status(401) => reply.res.exc = "GoveeAuthenticationError"
        /\ NetworkFailure => reply.res.exc = "GoveeConnectionError"
        /\ OtherStatus => reply.res.exc = "GoveeClientError"

\* C3: a poll that meets status 401 fails with ConfigEntryAuthFailed, not with
\* UpdateFailed; a poll that meets a network failure fails with UpdateFailed.
C3_PollAuthFailure ==
    reply.op = "poll" =>
        /\ Status(401) => reply.res.exc = "ConfigEntryAuthFailed"
        /\ NetworkFailure => reply.res.exc = "UpdateFailed"

\* C4: GET /devices and GET /device/{name} answer 500 without an upstream
\* request when the token or the client id is not configured, and otherwise
\* 401 on vendor status 401, 503 on a network failure and 500 on any other
\* non-2xx status.
C4_FacadeStatusMapping ==
    reply.op \in {"GET /devices", "GET /device"} =>
        IF ~Configured(reply.env)
        THEN reply.answer.status = 500 /\ reply.answer.gets = 0
        ELSE /\ Status(401) => reply.answer.status = 401
             /\ NetworkFailure => reply.answer.status = 503
             /\ OtherStatus => reply.answer.status = 500

\* the 2xx body is an object without data, or with a data object without devices
NoDataOrNoDevices ==
    /\ vendor.kind = "response" /\ vendor.status \in 200..299
    /\ vendor.body.k = "dict"
    /\ \/ "data" \notin DOMAIN vendor.body.d
       \/ /\ vendor.body.d["data"].k = "dict"
          /\ "devices" \notin DOMAIN vendor.body.d["data"].d

\* C8: when the decoded 2xx body has no data member, or its data member has no
\* devices member, get_devices (of either client) returns an empty list and
\* raises nothing.
C8_MissingDataOrDevicesIsEmpty ==
    (reply.op = "get_devices" /\ NoDataOrNoDevices) =>
        reply.res.exc = "none" /\ reply.res.val = <<>>

\* C8 witness: the integration's get_devices returned the empty list for a
\* body whose data object has no devices
C8_Witness ==
    /\ program = "integration" /\ reply.op = "get_devices"
    /\ vendor = Response(200, Obj([data |-> Dict(<<>>)]))
    /\ reply.res.exc = "none" /\ reply.res.val = <<>>

\* the field of the parsed sub-documents in raw_data that a boolean key of the
\* normalized device comes from (None when the sub-document is None)
BoolSource(raw_data, key) ==
    CASE key = "online" -> Attr(raw_data.last_device_data, "online")
      [] key = "temperature_warning" -> Attr(raw_data.device_settings, "tem_warning")
      [] key = "humidity_warning" -> Attr(raw_data.device_settings, "hum_warning")
      [] key = "power_save_mode" -> Attr(raw_data.device_settings, "power_save_mode_state")

\* the coordinator's record for a MAC
Record(mac) == coordinator.data.d[mac]

\* the boolean fields of the coordinator's mapping whose source is v
BoolFields(v) ==
    IF coordinator.data.k # "dict" THEN {}
    ELSE { e \in (DOMAIN coordinator.data.d) \X BooleanSensorKeys :
             BoolSource(Record(e[1]).raw_data, e[2]) = v }

\* the state read by the last operation is the one of entity e
Reads(platform, e) == reply.op = platform /\ <<reply.mac, reply.key>> = e

\* C9: a boolean field that is false in its parsed sub-document differs from
\* the same field absent at every stage: False against None in the normalized
\* device and in the coordinator's record, an entity against none at the
\* setup of either platform, available with is_on False against unavailable
\* for the binary sensor, "Off" against unavailable and None for the sensor.
C9_FalseIsNotAbsent ==
    /\ (reply.op = "get_devices" /\ reply.res.exc = "none") =>
          \A i \in 1..Len(reply.res.val), key \in BooleanSensorKeys :
              LET data == reply.res.val[i].data
              IN  /\ BoolSource(data.raw_data, key) = BoolV(FALSE) => data[key] = BoolV(FALSE)
                  /\ BoolSource(data.raw_data, key) = None => data[key] = None
    /\ \A e \in BoolFields(BoolV(FALSE)) :
          /\ Record(e[1])[e[2]] = BoolV(FALSE)
          /\ reply.op \in {"binary_sensor.async_setup_entry", "sensor.async_setup_entry"}
                => e \in reply.entities
          /\ Reads("binary_sensor", e) =>
                /\ reply.available = coordinator.last_update_success
                /\ reply.is_on = BoolV(FALSE)
          /\ Reads("sensor", e) =>
                /\ reply.available = coordinator.last_update_success
                /\ reply.native_value = StrV("Off")
    /\ \A e \in BoolFields(None) :
          /\ Record(e[1])[e[2]] = None
          /\ reply.op \in {"binary_sensor.async_setup_entry", "sensor.async_setup_entry"}
                => e \notin reply.entities
          /\ Reads("binary_sensor", e) => ~reply.available /\ reply.is_on = None
          /\ Reads("sensor", e) => ~reply.available /\ reply.native_value = None

\* C9 witness: the sensor for online of a device whose telemetry says
\* online false reads "Off" and is available
C9_Witness ==
    /\ <<"CC:DD", "online">> \in BoolFields(BoolV(FALSE))
    /\ Reads("sensor", <<"CC:DD", "online">>)
    /\ reply.available /\ reply.native_value = StrV("Off")

-----------------------------------------------------------------------------
(* FlowSpec: the config flow and the entries it creates and updates.  The  *)
(* user submits forms to the user step and to the reauth_confirm step of   *)
(* an existing entry; the host validates each form against the step's     *)
(* schema and sets up or reloads the entry.                                 *)

Tokens == {StrV("old"), StrV("new")}
ClientIds == {StrV("home"), StrV("cabin")}

\* what the form's scan interval field is submitted with
ScanForms == {Absent, IntV(59), IntV(60), FloatV(59, 9), StrV("2160"), StrV("bad")}

UserForms ==
    { Obj([auth_token |-> t, client_id |-> c, scan_interval |-> s]).d :
        t \in Tokens, c \in ClientIds, s \in ScanForms }
    \cup { Obj([auth_token |-> StrV("new")]).d }

ReauthForms ==
    { Obj([auth_token |-> t]).d : t \in Tokens }
    \cup { Obj([auth_token |-> StrV("new"), scan_interval |-> IntV(10)]).d,
           Obj([scan_interval |-> IntV(10)]).d }

\* the vendor accepts the credentials, refuses them, or cannot be reached
FlowVendors ==
    { Response(200, DevicesBody(<<GoodEntry>>)), Response(401, Dict(<<>>)),
      Failure("ConnectError") }

FlowInit ==
    /\ program = "config_flow"
    /\ raw = None
    /\ parsed = NotParsed
    /\ vendor = Idle
    /\ reply = Idle
    /\ coordinator = NoData
    /\ entities = <<>>
    /\ config_entries = <<>>

FlowUserStep == UserStepOf(FlowVendors, UserForms)

FlowReauthConfirmStep == ReauthConfirmStepOf(FlowVendors, ReauthForms)

FlowNext ==
    \/ FlowUserStep
    \/ FlowReauthConfirmStep

FlowSpec == FlowInit /\ [][FlowNext]_vars

-----------------------------------------------------------------------------
(* C11 *)

\* the sub-documents of raw_data have been encoded and parsed again
Reparsed == reply.op = "reparse" /\ reply.by = parsed.by

\* stored sub-document x (a model's fields, or None) comes back as y
RoundTrips(x, y) == y.exc = "none" /\ y.val = x

\* stored sub-document x comes back as y with the fields read under their own
\* name kept and every field read under another key None
RoundTripsUnaliased(schema, x, y) ==
    /\ y.exc = "none"
    /\ IF x = None THEN y.val = None
       ELSE /\ y.val.k = "dict"
            /\ \A c \in schema :
                  y.val.d[c.f] = IF c.a = c.f THEN x.d[c.f] ELSE None

\* C11, as stated: encoding the two sub-documents kept in raw_data back to JSON
\* and parsing each again with the same parser yields sub-documents equal to
\* the stored ones, for every field.
C11_RoundTrip ==
    (Reparsed /\ Returned) =>
        /\ RoundTrips(Data.raw_data.device_settings, reply.device_settings)
        /\ RoundTrips(Data.raw_data.last_device_data, reply.last_device_data)

\* C11, amended: raw_data keeps each sub-document under its field names, and
\* the parsers read most fields under a camelCase key, so after encoding and
\* parsing again a field read under its own name (battery, sku, device, online,
\* tem, hum) equals the stored one and every other field is None; a
\* sub-document stored as None has nothing to encode and stays None.
C11_RoundTripUnaliasedOnly ==
    (Reparsed /\ Returned) =>
        /\ RoundTripsUnaliased(Pkg_DeviceSettings, Data.raw_data.device_settings,
                               reply.device_settings)
        /\ RoundTripsUnaliased(Pkg_LastDeviceData, Data.raw_data.last_device_data,
                               reply.last_device_data)

\* C11 witness: stored settings with battery 85 and tem_warning false came back
\* from the package's parser with battery 85 and tem_warning None
C11_Witness ==
    /\ Reparsed /\ Returned /\ parsed.by = "package"
    /\ Data.raw_data.device_settings # None
    /\ Data.raw_data.device_settings.d["battery"] = IntV(85)
    /\ Data.raw_data.device_settings.d["tem_warning"] = BoolV(FALSE)
    /\ reply.device_settings.val.d["battery"] = IntV(85)
    /\ reply.device_settings.val.d["tem_warning"] = None

-----------------------------------------------------------------------------
(* C12 *)

\* an entity's device_info has been read after the integration parsed raw
InfoRead == reply.op = "device_info" /\ parsed.by = "integration" /\ Returned

\* the SKU of the parsed device as the entity sees it: None when the device is
\* not in the mapping
SeenSku == IF reply.in_data THEN parsed.res.val.model ELSE None

SeenTemperature == IF reply.in_data THEN Data.temperature ELSE None
SeenHumidity == IF reply.in_data THEN Data.humidity ELSE None

-----------------------------------------------------------------------------
(* C13 *)

\* the <<MAC, key>> of the coordinator's mapping, over the declared keys, whose
\* value is not None
NotNoneFields(keys) ==
    { e \in (DOMAIN coordinator.data.d) \X keys : Record(e[1])[e[2]] # None }

\* C13: at platform setup an entity is created for a device of the mapping and
\* a declared sensor or binary-sensor type exactly when the device's value for
\* that type is not None; false, 0 and 0.0 create an entity.
C13_EntityIffNotNone ==
    /\ reply.op = "sensor.async_setup_entry" =>
          reply.entities = NotNoneFields(SENSOR_DESCRIPTIONS)
    /\ reply.op = "binary_sensor.async_setup_entry" =>
          reply.entities = NotNoneFields(BINARY_SENSOR_DESCRIPTIONS)

\* C13 witness: the sensor platform was set up on a mapping whose device CC:DD
\* has battery 0, temperature 0.0, online false and no wifi_level; it created
\* the first three entities and not the fourth
C13_Witness ==
    /\ reply.op = "sensor.async_setup_entry"
    /\ InData(coordinator, "CC:DD")
    /\ Record("CC:DD").battery = IntV(0)
    /\ Record("CC:DD").temperature = FloatV(0, 0)
    /\ Record("CC:DD").online = BoolV(FALSE)
    /\ Record("CC:DD").wifi_level = None
    /\ {<<"CC:DD", "battery">>, <<"CC:DD", "temperature">>, <<"CC:DD", "online">>}
          \subseteq reply.entities
    /\ <<"CC:DD", "wifi_level">> \notin reply.entities

-----------------------------------------------------------------------------
(* C14 *)

\* the declared types of a platform
Descriptions(platform) ==
    IF platform = "sensor" THEN SENSOR_DESCRIPTIONS ELSE BINARY_SENSOR_DESCRIPTIONS

\* the last operation was a refresh that succeeded
Polled == reply.op = "poll" /\ reply.res.exc = "none"

\* C14, as stated: after any sequence of polls, a device or a field that was
\* absent from the mapping at setup and is not None in the mapping of a later
\* poll is exposed as an entity after that poll.
C14_ExposedAfterLaterPoll ==
    Polled => \A platform \in DOMAIN entities :
                 NotNoneFields(Descriptions(platform)) \subseteq entities[platform]

\* C14, amended: the exposure decision is taken once, when a platform is set
\* up, against the mapping the coordinator holds then: the platform adds the
\* entities of the fields that are not None in that mapping, and no later
\* step, a poll included, adds or removes an entity of a platform set up.
C14_ExposureDecidedAtSetup ==
    [][ /\ \A platform \in DOMAIN entities :
              /\ platform \in DOMAIN entities'
              /\ entities'[platform] = entities[platform]
        /\ \A platform \in (DOMAIN entities') \ DOMAIN entities :
              entities'[platform] = NotNoneFields(Descriptions(platform)) ]_vars

\* C14 witness: the sensor platform was set up on an empty mapping, a later
\* poll brought device AA:BB with a temperature, and there is still no entity
C14_Witness ==
    /\ Polled
    /\ "sensor" \in DOMAIN entities /\ entities["sensor"] = {}
    /\ InData(coordinator, "AA:BB") /\ Record("AA:BB").temperature # None

-----------------------------------------------------------------------------
(* C15 *)

\* the state of a generic sensor entity has been read
SensorRead == reply.op = "state" /\ reply.platform = "sensor"

\* the mapping's value for the entity read, None when its device is not in
\* the mapping
MappingValue ==
    IF InData(coordinator, reply.mac) THEN Record(reply.mac)[reply.key] ELSE None

\* C15: for the generic sensor types online, temperature_warning,
\* humidity_warning and power_save_mode, native_value is "On" when the value is
\* true, "Off" when it is false and None when it is absent or the device is
\* not in the mapping, never a raw boolean; for every other sensor type
\* native_value is the mapping's value unchanged.
C15_BooleanSensorsOnOff ==
    SensorRead =>
        IF reply.key \in {"online", "temperature_warning", "humidity_warning",
                          "power_save_mode"}
        THEN /\ MappingValue = BoolV(TRUE) => reply.value = StrV("On")
             /\ MappingValue = BoolV(FALSE) => reply.value = StrV("Off")
             /\ MappingValue = None => reply.value = None
             /\ reply.value.k # "bool"
        ELSE reply.value = MappingValue

\* C15 witness: the sensor for online of device AA:BB, whose record says
\* online true, reads "On"
C15_Witness ==
    /\ SensorRead /\ reply.mac = "AA:BB" /\ reply.key = "online"
    /\ MappingValue = BoolV(TRUE)
    /\ reply.value = StrV("On")

-----------------------------------------------------------------------------
(* C16 *)

\* the devices the integration's client parses from the response of the last
\* operation
ParsedNow == HA_fetched[vendor].val

\* the mapping holds the devices parsed from the response of the last
\* operation and nothing else: its keys are their MACs and each record is the
\* record of one of them with that MAC
HoldsParsedNow ==
    /\ coordinator.data.k = "dict"
    /\ DOMAIN coordinator.data.d = { ParsedNow[i].mac.s : i \in 1..Len(ParsedNow) }
    /\ \A mac \in DOMAIN coordinator.data.d :
          \E i \in 1..Len(ParsedNow) :
              ParsedNow[i].mac.s = mac /\ Record(mac) = HA_processed_device(ParsedNow[i])

\* C16: after any sequence of polls the coordinator's mapping holds exactly the
\* devices parsed from the most recent successful response and nothing carried
\* over: a successful poll replaces the mapping by the devices of its
\* response, and every other step (a failed poll included) leaves it alone.
C16_MappingIsLastResponse ==
    /\ [](Polled => HoldsParsedNow)
    /\ [][ IF reply'.op = "poll" /\ reply'.res.exc = "none"
           THEN coordinator'.data = reply'.res.val
           ELSE coordinator'.data = coordinator.data ]_vars

\* C16 witness: device CC:DD was in the mapping when the sensor platform was
\* set up, the last poll succeeded on a response without it, and the mapping
\* has no CC:DD
C16_Witness ==
    /\ Polled
    /\ "sensor" \in DOMAIN entities
    /\ \E key \in SENSOR_DESCRIPTIONS : <<"CC:DD", key>> \in entities["sensor"]
    /\ \A i \in 1..Len(ParsedNow) : ParsedNow[i].mac.s # "CC:DD"
    /\ ~InData(coordinator, "CC:DD")

-----------------------------------------------------------------------------
(* C17 *)

\* the fields of a record that come from device.data
DataFields ==
    {"temperature", "humidity", "battery", "online", "wifi_level", "temperature_warning",
     "humidity_warning", "upload_rate", "power_save_mode", "last_seen",
     "avg_day_temperature", "avg_day_humidity", "raw_data"}

\* record carries the values of the parsed device
Carries(record, device) ==
    /\ record.name = device.name /\ record.mac = device.mac
    /\ record.model = device.model
    /\ \A f \in DataFields : record[f] = device.data[f]

\* C17: in every mapping returned by a poll each key equals the mac field of
\* its record, the set of keys equals the set of MACs of the devices
\* get_devices returned, and each record has exactly the fields name, mac,
\* model, temperature, humidity, battery, online, wifi_level,
\* temperature_warning, humidity_warning, upload_rate, power_save_mode,
\* last_seen, avg_day_temperature, avg_day_humidity and raw_data, with the
\* values of the parsed device.
C17_PollMappingShape ==
    Polled =>
        LET mapping == reply.res.val.d
        IN  /\ \A mac \in DOMAIN mapping : mapping[mac].mac = StrV(mac)
            /\ DOMAIN mapping = { ParsedNow[i].mac.s : i \in 1..Len(ParsedNow) }
            /\ \A mac \in DOMAIN mapping :
                  /\ DOMAIN mapping[mac] = {"name", "mac", "model"} \cup DataFields
                  /\ \E i \in 1..Len(ParsedNow) : Carries(mapping[mac], ParsedNow[i])

\* C17 witness: a poll returned a mapping with the two devices AA:BB and
\* CC:DD, the first with model H5075 and temperature 21.6
C17_Witness ==
    /\ Polled
    /\ DOMAIN reply.res.val.d = {"AA:BB", "CC:DD"}
    /\ reply.res.val.d["AA:BB"].model = StrV("H5075")
    /\ reply.res.val.d["AA:BB"].temperature = FloatV(21, 60)
    /\ reply.res.val.d["CC:DD"].name = StrV("Garage")

-----------------------------------------------------------------------------
(* C18 *)

\* the last operation was a call of a method of either client
ClientCalled == reply.op \in {"get_devices", "get_device_by_name", "get_temperature"}

-----------------------------------------------------------------------------
(* C19 *)

\* the account returned zero devices to the last operation: get_devices
\* succeeded with an empty list
ZeroDevices == HA_fetched[vendor].exc = "none" /\ HA_fetched[vendor].val = <<>>

FlowStepped == reply.op \in {"async_step_user", "async_step_reauth_confirm"}

\* C19: zero devices is a setup error but not a polling error: validate_input
\* fails with CannotConnect (the flow shows cannot_connect and creates or
\* updates no entry) when the account returns zero devices, whereas a poll
\* whose response has zero devices succeeds and returns an empty mapping.
C19_ZeroDevicesFailSetupOnly ==
    /\ (FlowStepped /\ ZeroDevices) =>
          /\ reply.info.exc = "CannotConnect"
          /\ reply.result.type = "form" /\ reply.result.errors = "cannot_connect"
          /\ reply.result.entry = "none"
    /\ (reply.op = "poll" /\ ZeroDevices) =>
          /\ reply.res.exc = "none" /\ reply.res.val = Dict(<<>>)
          /\ coordinator.last_update_success /\ coordinator.data = Dict(<<>>)

\* C19 witness: the user step on an account whose device list is empty showed
\* the form again with cannot_connect
C19_Witness ==
    /\ reply.op = "async_step_user"
    /\ vendor = Response(200, DevicesBody(<<>>))
    /\ reply.info.exc = "CannotConnect"
    /\ reply.result.type = "form" /\ reply.result.errors = "cannot_connect"

-----------------------------------------------------------------------------
(* C20 *)

\* GET /device/{name} was answered by a configured facade whose upstream call
\* succeeded
DeviceAsked ==
    /\ reply.op = "GET /device" /\ Configured(reply.env)
    /\ Pkg_fetched[vendor].exc = "none"

\* the devices the upstream call returned, in response order
Upstreamed == Pkg_fetched[vendor].val

\* the positions of the devices named as requested
NamedAsAsked == { i \in 1..Len(Upstreamed) : Upstreamed[i].name = reply.name }

\* C20: GET /device/{name} returns the record (name, mac, model, temperature,
\* humidity, battery) of the first device in response order whose name equals
\* the requested name, and answers 404 when the upstream call succeeds and no
\* returned device has that name.
C20_FirstDeviceOfThatName ==
    DeviceAsked =>
        IF NamedAsAsked = {} THEN reply.answer.status = 404
        ELSE \E i \in NamedAsAsked :
                /\ \A j \in NamedAsAsked : i <= j
                /\ reply.answer.status = 200
                /\ reply.answer.body =
                      [ name |-> Upstreamed[i].name, mac |-> Upstreamed[i].mac,
                        model |-> Upstreamed[i].model,
                        temperature |-> Upstreamed[i].data.temperature,
                        humidity |-> Upstreamed[i].data.humidity,
                        battery |-> Upstreamed[i].data.battery ]

\* C20 witness: two devices named Garage were returned, AA:BB before CC:DD,
\* and GET /device/Garage answered the record of AA:BB
C20_Witness ==
    /\ DeviceAsked /\ reply.name = StrV("Garage")
    /\ Len(Upstreamed) = 2
    /\ Upstreamed[1].name = StrV("Garage") /\ Upstreamed[1].mac = StrV("AA:BB")
    /\ Upstreamed[2].name = StrV("Garage") /\ Upstreamed[2].mac = StrV("CC:DD")
    /\ reply.answer.status = 200 /\ reply.answer.body.mac = StrV("AA:BB")

-----------------------------------------------------------------------------
(* C26 *)

\* x is the text of a JSON object
IsObjectText(x) ==
    x.k = "str" /\ "t" \in DOMAIN x /\ x.t.form = "json" /\ x.t.value.k = "dict"

\* x is present and int(x) raises
Unconvertible(x) == x # None /\ PyInt(x).exc # "none"

\* x is null (or absent), a boolean or an integer
IsPlain(x) == x.k \in {"none", "bool", "int"}

\* raw's lastDeviceData is the text of an object in which member h[3] cannot
\* be converted and every other member is plain; its deviceSettings is a
\* document of plain members
OneUnconvertible(h) ==
    /\ RawScalarsGood /\ RawExtIsObject
    /\ IsDocText(SubValue("deviceSettings"))
    /\ IsObjectText(SubValue("lastDeviceData"))
    /\ Unconvertible(Member(SubValue("lastDeviceData"), h[3]))
    /\ \A key \in DOMAIN SubValue("lastDeviceData").t.value.d \ {h[3]} :
          IsPlain(SubValue("lastDeviceData").t.value.d[key])

\* C26: a tem, hum, avgDayTem or avgDayHum value in lastDeviceData that cannot
\* be converted to an integer is treated as absent: the device is still
\* returned, that one normalized field is None, and the other telemetry
\* fields and all settings-derived fields keep their values.
C26_UnconvertibleIsAbsent ==
    Parsed =>
        \A h \in Hundredths :
            OneUnconvertible(h) =>
                /\ Returned
                /\ Data[h[1]] = None
                /\ Data.online = Member(SubValue("lastDeviceData"), "online")
                /\ Data.last_seen = Member(SubValue("lastDeviceData"), "lastTime")
                /\ \A o \in Hundredths \ {h} :
                      IsHundredthsOf(Data[o[1]], Member(SubValue("lastDeviceData"), o[3]))
                /\ SettingsKept(SubValue("deviceSettings"))

-----------------------------------------------------------------------------
(* C22 *)

\* the state of an entity a platform added has been read
StateRead == reply.op = "state" /\ reply.platform \in DOMAIN entities

\* C22: after any sequence of successful and failed polls an existing sensor
\* or binary-sensor entity is available exactly when the last poll succeeded,
\* its device's MAC is in the current mapping and its field is not None
\* there, so an entity that became unavailable is available again after a
\* later successful poll that carries its field.
C22_AvailableIffCarried ==
    StateRead =>
        (reply.available <=>
            /\ coordinator.last_update_success
            /\ InData(coordinator, reply.mac)
            /\ Record(reply.mac)[reply.key] # None)

\* C22 witness: a sensor entity whose field is in the mapping reads
\* unavailable after a failed poll
C22_Witness ==
    /\ StateRead /\ reply.platform = "sensor"
    /\ ~coordinator.last_update_success
    /\ InData(coordinator, reply.mac) /\ Record(reply.mac)[reply.key] # None
    /\ ~reply.available

-----------------------------------------------------------------------------
(* C23 *)

\* the outcome of the client call validate_input made in the last flow step
ClientCall == HA_fetched[vendor]

\* C23: validate_input raises InvalidAuth exactly when the client call failed
\* because the vendor answered 401, and CannotConnect for every other failure
\* (network error, other HTTP status, unexpected exception, zero devices); no
\* other exception type escapes it, and on success it returns a title
\* containing the number of devices.
C23_ValidateInputOutcomes ==
    FlowStepped =>
        /\ reply.info.exc \in {"none", "InvalidAuth", "CannotConnect"}
        /\ reply.info.exc = "InvalidAuth" <=> (ClientCall.exc # "none" /\ Status(401))
        /\ reply.info.exc = "CannotConnect" <=>
              \/ ClientCall.exc # "none" /\ ~Status(401)
              \/ ZeroDevices
        /\ reply.info.exc = "none" =>
              /\ ClientCall.exc = "none"
              /\ reply.info.val.title_devices = Len(ClientCall.val)
              /\ reply.info.val.title_devices > 0

\* C23 witness: the reauth_confirm step met status 401 on a body that lists a
\* device, and validate_input raised InvalidAuth
C23_Witness ==
    /\ reply.op = "async_step_reauth_confirm"
    /\ vendor = Response(401, DevicesBody(<<GoodEntry>>))
    /\ reply.info.exc = "InvalidAuth"
    /\ reply.result.errors = "invalid_auth"

-----------------------------------------------------------------------------
(* C21 *)

\* the user step has just created an entry
EntryCreated == reply.op = "async_step_user" /\ reply.result.type = "create_entry"

\* C21: the poll interval has a floor of 60 seconds.  Every entry the user
\* step creates has a scan interval of at least 60, and of 300 when the form
\* gave none; and after any sequence of user and reauth_confirm steps every
\* entry's data and the coordinator set up from it have an interval of at
\* least 60 seconds.
C21_ScanIntervalFloor ==
    /\ EntryCreated =>
          /\ reply.result.data.scan_interval.v >= MIN_SCAN_INTERVAL
          /\ "scan_interval" \notin DOMAIN reply.form =>
                reply.result.data.scan_interval.v = DEFAULT_SCAN_INTERVAL
    /\ \A i \in DOMAIN config_entries :
          /\ config_entries[i].data.scan_interval.v >= MIN_SCAN_INTERVAL
          /\ config_entries[i].coordinator.update_interval >= MIN_SCAN_INTERVAL

\* C21 witness: an entry created with the smallest interval the form accepts
\* has been re-authenticated and polls every 60 seconds
C21_Witness ==
    /\ reply.op = "async_step_reauth_confirm"
    /\ reply.result.entry = "updated"
    /\ config_entries[reply.entry_index].data.scan_interval = IntV(60)
    /\ config_entries[reply.entry_index].coordinator.update_interval = 60

-----------------------------------------------------------------------------
(* C24 *)

\* the reauth_confirm step has just run on the form's input
Reauthenticated == reply.op = "async_step_reauth_confirm"

\* the entry the reauth flow was started for, after the step
ReauthEntry == config_entries[reply.entry_index]

\* C24: re-authentication changes only the auth token.  When the new token
\* validates, the entry's data is the old data with auth_token replaced
\* (client id and scan interval unchanged), the entry is reloaded (its
\* coordinator is constructed from the new data) and the flow ends with
\* reauth_successful; when validation fails no entry changes, none is
\* reloaded, and the form is shown again with cannot_connect, invalid_auth or
\* unknown.  No step touches another entry.
C24_ReauthChangesOnlyToken ==
    [][ Reauthenticated' =>
          IF reply'.info.exc = "none"
          THEN /\ Len(config_entries') = Len(config_entries)
               /\ \A i \in DOMAIN config_entries :
                     i # reply'.entry_index => config_entries'[i] = config_entries[i]
               /\ ReauthEntry'.data =
                     [config_entries[reply'.entry_index].data
                         EXCEPT !.auth_token = reply'.form.auth_token]
               /\ ReauthEntry'.coordinator.auth_token = reply'.form.auth_token
               /\ ReauthEntry'.coordinator.client_id = ReauthEntry'.data.client_id
               /\ reply'.result.type = "abort"
               /\ reply'.result.reason = "reauth_successful"
          ELSE /\ config_entries' = config_entries
               /\ reply'.result.type = "form"
               /\ reply'.result.step_id = "reauth_confirm"
               /\ reply'.result.errors \in {"cannot_connect", "invalid_auth", "unknown"}
      ]_vars

\* C24 witness: of two entries, the one created with the old token and an
\* interval of 60 seconds has been re-authenticated with the new token
C24_Witness ==
    /\ Reauthenticated
    /\ reply.result.reason = "reauth_successful"
    /\ Len(config_entries) = 2
    /\ reply.entry_data.auth_token = StrV("old")
    /\ ReauthEntry.data = [reply.entry_data EXCEPT !.auth_token = StrV("new")]
    /\ ReauthEntry.data.scan_interval = IntV(60)
    /\ ReauthEntry.coordinator.auth_token = StrV("new")

-----------------------------------------------------------------------------
(* C25 *)

\* the user step ran on credentials the vendor accepts for a client id that
\* an entry already has
ResubmittedConfigured ==
    /\ reply.op = "async_step_user"
    /\ reply.info.exc = "none"
    /\ reply.configured

\* no two entries have the same client id
OneEntryPerClientId ==
    \A i, j \in DOMAIN config_entries :
        config_entries[i].data.client_id = config_entries[j].data.client_id => i = j

\* C25: a user step submitted with valid credentials whose client id is
\* already configured aborts the flow as already configured and creates no
\* second entry; after any sequence of user steps there is at most one entry
\* per client id.
C25_AlreadyConfiguredAborts ==
    /\ ResubmittedConfigured =>
          /\ reply.result.type = "abort"
          /\ reply.result.reason = "already_configured"
          /\ reply.result.entry = "none"
    /\ OneEntryPerClientId

====
